---- MODULE Spec2Model ----
(***************************************************************************)
(* gouache: cache decorators.                                              *)
(*   ddd : delay double delete decorator over one Cache and one Database   *)
(*   sf  : singleflight (request coalescing) decorator over one Cache      *)
(* Every call of a wrapped collaborator (Cache, Database, Gopher) is one   *)
(* atomic step of the calling goroutine; goroutines interleave freely      *)
(* between those steps.                                                    *)
(***************************************************************************)
EXTENDS Integers, Sequences, FiniteSets, TLC

\* ------------------------------------------------------------------ bounds
MaxCalls == 3
MaxFaults == 1

\* Each call of a decorator runs in a goroutine of its own: goroutine i makes
\* the i-th call that is started.
Procs == 1..MaxCalls
Keys == {"k1"}
SfKeys == {"k1", "k2"}

\* Values are opaque to the decorators, which never inspect them: every Set
\* writes a value of its own, named after the index of the call.
ValueNames == <<"v1", "v2", "v3", "v4", "v5", "v6", "v7", "v8">>
InitialValue == "v0"

\* ------------------------------------------------------- values and errors
Absent == "absent"            \* no entry / no row under the key
NilVal == "nil"               \* Go's nil as a value
NoErr == "ok"                 \* a nil error
ErrCacheMiss == "ErrCacheMiss"
ErrCache == "ErrCache"        \* any failure of the wrapped cache
ErrDb == "ErrDb"              \* any failure of the database
ErrNoRows == "ErrNoRows"      \* the database's own error for a missing row
ErrGopher == "ErrGopher"      \* the Gopher refused the function
ErrCanceled == "ErrCanceled"  \* context.Canceled, from a cache that honours ctx
Partial == "partial"          \* a non-nil value handed back beside an error

\* How a Database collaborator may report a missing row: the interface fixes
\* no convention (CacheMiss, an error of its own, or a nil value and no error),
\* so each is a possible result of a Select that finds no row.
MissKinds == {"miss", "norows", "nilnil"}

NoCall == [kind |-> "none", key |-> "none", val |-> NilVal]
NoRet == <<NilVal, "none">>

VARIABLES
    \* ---- ddd: collaborators
    cacheData,   \* wrapped cache: key -> value, NilVal or Absent
    dbData,      \* database: key -> value or Absent
    tasks,       \* functions handed to the Gopher, not yet past their sleep:
                 \* [key, ver (the write's version), ctx (the state of the
                 \* context of the call that scheduled it)]
    handled,     \* key -> number of ErrorHandler invocations
    faults,      \* number of collaborator calls that failed so far
    \* ---- ddd: the calls in progress, one record per goroutine
    \*   pc      position inside the call ("idle" before, "done" after it)
    \*   op      the call: [kind, key, val]
    \*   loc     Get's local val, the value Select returned
    \*   trace   the collaborator calls made so far, in order
    \*   ver     history: dbVer read (Get) or produced (Set/Delete)
    \*   floorP  history: purged[key] when the call began
    \*   sawOk   history: okDel[key] when the call began
    \*   alone   history: no other call on the key was active since it began
    \*   follows history: for a Get, solo[key] when it began with no other
    \*           call on the key active, while none began since
    call,
    \* ---- ddd: history variables
    last,        \* the call that returned most recently, and what it returned
    dbVer,       \* key -> number of database mutations so far
    dbSets,      \* key -> number of those that were Upserts
    cacheVer,    \* key -> dbVer the cached value was read at
    okDel,       \* key -> number of delayed deletions that succeeded
    purged,      \* key -> highest write version whose delayed deletion ran
                 \*        with no older reader still between Select and Set
    staleHit,    \* key -> a delayed deletion removed an entry older than the
                 \*        write that scheduled it
    solo,        \* key -> the write [kind, key, val] that returned success
                 \*        with no other call on the key since it began;
                 \*        NoCall otherwise
    issued,      \* the delayed deletions issued so far: [key, ver, caller
                 \*        (the scheduling call's context at that moment),
                 \*        ctx (the context cache.Delete was called with)]
    selected,    \* key -> the values Database.Select has returned with a
                 \*        nil error
    okWrites     \* key -> number of Set and Delete calls that returned nil

VARIABLES
    \* ---- sf: the decorator and the cache it wraps
    sfData,      \* wrapped cache: key -> value or Absent
    sfM,         \* singleflight group.m: key -> the leader of the call in
                 \* flight, 0 when there is none
    sfCall,      \* the singleflight call objects, named after their leader:
                 \* [val, err, done (wg released), dups]
    \* ---- sf: the callers, one record per goroutine
    \*   pc   "idle", "fetch" (leader inside the wrapped Get), "publish"
    \*        (leader, wrapped Get returned), "unwind" (leader, call removed
    \*        from group.m), "wait" (follower in wg.Wait), "done"
    \*   key  the key of the Get
    \*   c    the call object it leads or joined
    \*   seen history: sfSetLast[key] when the Get began
    \*   w    history: sfWrites[key] when the Get began
    \*   fresh history: the key was not written between the beginning of
    \*        the flight the Get led or joined and the beginning of the Get
    sfProc,
    \* ---- sf: history variables
    sfInvoked,   \* key -> number of invocations of the wrapped Get
    sfFetched,   \* leader -> the <<value, error>> its invocation returned
    sfGets,      \* key -> number of Get calls entered
    sfLate,      \* key -> some Get entered after an earlier call of the key
                 \*        had been removed from group.m
    sfRets,      \* key -> the <<value, error>> pairs Gets have returned
    sfWrites,    \* key -> number of Set and Delete calls
    sfForwarded, \* key -> number of Set and Delete calls the wrapped cache
                 \*        has received
    sfLastWrite, \* the Set or Delete that returned most recently: [op, key,
                 \*        val, fwd (the calls it made on the wrapped cache),
                 \*        ret (the error it returned), busy (a Get of the key
                 \*        was in flight)]
    sfLast,      \* the Get that returned most recently: [p, key, c, ret,
                 \*        cancelled (its context was cancelled meanwhile)]
    sfCancelled, \* the goroutines inside Get whose context has been cancelled
    sfSetLast    \* key -> the value of the Set that returned nil as the last
                 \*        write of the key, "none" when there is no such Set

sfVars == <<sfData, sfM, sfCall, sfProc, sfInvoked, sfFetched, sfGets, sfLate,
            sfRets, sfWrites, sfForwarded, sfLastWrite, sfLast, sfCancelled,
           sfSetLast>>

VARIABLES
    \* ---- sharded: the router and its buckets
    shState,     \* "new" before New is called, "ready" once it has returned
                 \* a router, "panicked" when it has panicked
    shBuckets,   \* cache.Buckets: the bucket caches in order, each a map
                 \* key -> value or Absent (bucket i is shBuckets[i + 1])
    shHash,      \* cache.Options.HashFactory, by the kind of hash it builds
    shBits,      \* the width of int in the build, 32 or 64
    \* ---- sharded: history variables
    shAsked,     \* the length of the bucket list New was called with
    shLast,      \* the router call made most recently: [op, key, val, res
                 \*        (what cache.bucket gave), fwd (the calls made on
                 \*        buckets: <<bucket, op, key, val, result>>), ret
                 \*        (<<value, error>> returned), had (the key was set
                 \*        before the call)]
    shRoute,     \* key -> what cache.bucket gave the first time it was asked
    shRef        \* key -> the value of the last successful Set of the key
                 \*        with no successful Delete after it, or Absent

VARIABLES
    \* ---- ddd: construction
    coIn,        \* the options after Apply: [delay, timeout (milliseconds,
                 \*        0 when not configured), handler, gopher ("nil" when
                 \*        not configured)]
    coOut,       \* the options New keeps, after Correct, "none" before
    coRuns,      \* number of functions handed to the kept Gopher
    coSpawned,   \* number of goroutines the kept Gopher has started
    coErrs       \* the errors the kept Gopher has returned

VARIABLES
    \* ---- sf over ddd: history variables
    xSelects,    \* key -> number of Database.Select calls made for Gets
                 \*        that came through the singleflight decorator
    xSets        \* key -> number of cache.Set calls made for such Gets

xVars == <<xSelects, xSets>>

VARIABLES
    \* ---- adapters
    adCfg,       \* the adapter: [kind, ttl, marshal, unmarshal]
    adStore,     \* the backing store: key -> [data, expireAt]
    adNow,       \* the time, in ticks
    \* ---- adapters: history variables
    adDue,       \* key -> the time at which the duration the TTL function
                 \*        gave for the entry stored last has elapsed, 0 when
                 \*        it gave none
    adLast       \* the call made most recently: [op, at (the time of the
                 \*        call), key, val, calls (the functions it called),
                 \*        ret]

adVars == <<adCfg, adStore, adNow, adDue, adLast>>

shVars == <<shState, shBuckets, shHash, shBits, shAsked, shLast, shRoute, shRef>>

coVars == <<coIn, coOut, coRuns, coSpawned, coErrs>>

dddVars == <<cacheData, dbData, tasks, handled, faults, call, last,
             dbVer, dbSets, cacheVer, okDel, purged, staleHit, solo, issued, selected,
             okWrites>>

vars == <<dddVars, sfVars, shVars, coVars, xVars, adVars>>

Max(a, b) == IF a >= b THEN a ELSE b

\* ------------------------------------------------------------ collaborators
\* gouache.Cache.Get on a map-like cache: <<value, error>>
CacheGet(data, key, fail) ==
    IF fail THEN <<NilVal, ErrCache>>
    ELSE IF data[key] = Absent THEN <<NilVal, ErrCacheMiss>>
    ELSE <<data[key], NoErr>>

\* gouache.Database.Select: <<value, error>>. Nothing keeps a failing Select
\* from handing back a value beside its error; the model takes a non-nil one.
DbSelect(data, key, fail, missing) ==
    IF fail THEN <<Partial, ErrDb>>
    ELSE IF data[key] # Absent THEN <<data[key], NoErr>>
    ELSE IF missing = "miss" THEN <<NilVal, ErrCacheMiss>>
    ELSE IF missing = "norows" THEN <<NilVal, ErrNoRows>>
    ELSE <<NilVal, NoErr>>

\* A collaborator call may fail while the run's budget of failures lasts.
MayFail == IF faults < MaxFaults THEN BOOLEAN ELSE {FALSE}

\* one entry of a call's trace: the collaborator method, its key, the value
\* passed or returned, the error returned
Ev(name, key, val, err) == <<name, key, val, err>>

Idle == [pc |-> "idle", op |-> NoCall, loc |-> NilVal, trace |-> <<>>, ver |-> 0,
         floorP |-> 0, sawOk |-> 0, alone |-> FALSE, follows |-> NoCall]
Done == [Idle EXCEPT !.pc = "done"]

Active(p) == call[p].pc \notin {"idle", "done"}

\* What is kept of a call once it has returned <<value, error>> r, the value
\* read at database version rv.
Returned(c, r, rv) ==
    [op |-> c.op, ret |-> r, trace |-> c.trace, retVer |-> rv,
     floorP |-> c.floorP, sawOk |-> c.sawOk, follows |-> c.follows]
NoLast == Returned(Idle, NoRet, 0)

\* ------------------------------------------------------------------- ddd
\* Goroutine p may enter a call: goroutines are taken in order.
CanStart(p) ==
    /\ call[p].pc = "idle"
    /\ \A q \in Procs : q < p => call[q].pc # "idle"

\* The record of a call (src/ddd/cache.go: Get, Set or Delete) as it is
\* entered. Nothing is read or written between the entry and the call's
\* first statement, so the entry is taken together with that statement.
Entered(kind, k, v) ==
    LET quiet == ~ \E r \in Procs : Active(r) /\ call[r].op.key = k
    IN [pc |-> "idle", op |-> [kind |-> kind, key |-> k, val |-> v],
        loc |-> NilVal, trace |-> <<>>, ver |-> 0,
        floorP |-> IF kind = "Get" THEN purged[k] ELSE 0,
        sawOk |-> IF kind = "Get" THEN okDel[k] ELSE 0,
        alone |-> quiet,
        follows |-> IF kind = "Get" /\ quiet THEN solo[k] ELSE NoCall]

\* The calls in progress once a call on key k is entered: those on k are no
\* longer alone.
Others(k) ==
    [q \in Procs |-> IF call[q].op.key = k
                     THEN [call[q] EXCEPT !.alone = FALSE, !.follows = NoCall]
                     ELSE call[q]]

\* `err != nil`, lines 205, 230, 235, 270 and 275
ErrNotNilMut(err) == FALSE
ErrNotNil(err) == err # NoErr

\* `return nil, err`, line 206: what Get returns when Select returned r
SelectFailureMut(r) == r
SelectFailure(r) == <<NilVal, r[2]>>

\* `return val, cache.Cache.Set(ctx, key, val)`, line 210
RepopulatedMut(val, err) == IF err # NoErr THEN <<NilVal, err>> ELSE <<val, err>>
Repopulated(val, err) == <<val, err>>

\* errors.Is(err, gouache.ErrCacheMiss), line 202
\* (faulty variant: any error taken for a miss)
IsCacheMissMut(err) == err # NoErr
IsCacheMiss(err) == err = ErrCacheMiss

\* Get, line 199: val, err := cache.Cache.Get(ctx, key); anything but a
\* cache miss is returned as it is (line 214).
GetCacheGetOf(p, k) ==
    /\ call[p].pc = "idle"
    /\ \E fail \in MayFail :
         /\ faults' = IF fail THEN faults + 1 ELSE faults
         /\ LET r == CacheGet(cacheData, k, fail)
                c == [Entered("Get", k, NilVal) EXCEPT
                        !.trace = <<Ev("cache.Get", k, r[1], r[2])>>]
            IN IF IsCacheMiss(r[2])
               THEN /\ call' = [Others(k) EXCEPT ![p] = [c EXCEPT !.pc = "G2"]]
                    /\ UNCHANGED last
               ELSE /\ call' = [Others(k) EXCEPT ![p] = Done]
                    /\ last' = Returned(c, r, IF r[2] = NoErr THEN cacheVer[k] ELSE 0)
    /\ solo' = [solo EXCEPT ![k] = NoCall]
    /\ UNCHANGED <<cacheData, dbData, tasks, handled, issued, selected, okWrites,
                   dbVer, dbSets, cacheVer, okDel, purged, staleHit>>

\* Get entered by the goroutine whose turn it is
GetCacheGet(p, k) == CanStart(p) /\ GetCacheGetOf(p, k)

\* Get, lines 204-207: val, err := cache.Database.Select(ctx, key); an error
\* is returned with a nil value.
GetSelect(p) ==
    /\ call[p].pc = "G2"
    /\ \E fail \in MayFail, missing \in MissKinds :
         /\ faults' = IF fail THEN faults + 1 ELSE faults
         /\ LET k == call[p].op.key
                r == DbSelect(dbData, k, fail, missing)
                c == [call[p] EXCEPT !.trace = Append(@, Ev("db.Select", k, r[1], r[2]))]
            IN IF ErrNotNil(r[2])
               THEN /\ call' = [call EXCEPT ![p] = Done]
                    /\ last' = Returned(c, SelectFailure(r), 0)
                    /\ UNCHANGED selected
               ELSE /\ call' = [call EXCEPT ![p] =
                                  [c EXCEPT !.pc = "G3", !.loc = r[1], !.ver = dbVer[k]]]
                    /\ selected' = [selected EXCEPT ![k] = @ \cup {r[1]}]
                    /\ UNCHANGED last
    /\ UNCHANGED <<cacheData, dbData, tasks, handled, issued, okWrites, dbVer, dbSets,
                   cacheVer, okDel, purged, staleHit, solo>>

\* Get, line 210: return val, cache.Cache.Set(ctx, key, val)
GetCacheSet(p) ==
    /\ call[p].pc = "G3"
    /\ \E fail \in MayFail :
         /\ faults' = IF fail THEN faults + 1 ELSE faults
         /\ LET k == call[p].op.key
                e == IF fail THEN ErrCache ELSE NoErr
                c == [call[p] EXCEPT
                        !.trace = Append(@, Ev("cache.Set", k, call[p].loc, e))]
            IN /\ cacheData' = IF fail THEN cacheData
                               ELSE [cacheData EXCEPT ![k] = c.loc]
               /\ cacheVer' = IF fail THEN cacheVer
                              ELSE [cacheVer EXCEPT ![k] = c.ver]
               /\ last' = Returned(c, Repopulated(c.loc, e), c.ver)
    /\ call' = [call EXCEPT ![p] = Done]
    /\ UNCHANGED <<dbData, tasks, handled, issued, selected, okWrites, dbVer, dbSets, okDel, purged,
                   staleHit, solo>>

\* cache.Cache.Delete(ctx, key) of the first deletion, lines 230 and 270
\* (faulty variant: the first deletion left out)
FirstDeletionMut(data, k) == data
FirstDeletion(data, k) == [data EXCEPT ![k] = Absent]

\* Set, lines 230-232 and Delete, lines 270-272: the first cache deletion;
\* its error ends the call.
FirstCacheDelete(p, kind, k, v, next) ==
    /\ CanStart(p)
    /\ \E fail \in MayFail :
         /\ faults' = IF fail THEN faults + 1 ELSE faults
         /\ LET e == IF fail THEN ErrCache ELSE NoErr
                c == [Entered(kind, k, v) EXCEPT
                        !.trace = <<Ev("cache.Delete", k, NilVal, e)>>]
            IN IF ErrNotNil(e)
               THEN /\ call' = [Others(k) EXCEPT ![p] = Done]
                    /\ last' = Returned(c, <<NilVal, e>>, 0)
                    /\ UNCHANGED <<cacheData, cacheVer>>
               ELSE /\ call' = [Others(k) EXCEPT ![p] = [c EXCEPT !.pc = next]]
                    /\ cacheData' = FirstDeletion(cacheData, k)
                    /\ cacheVer' = [cacheVer EXCEPT ![k] =
                                      IF cacheData'[k] = Absent THEN 0 ELSE @]
                    /\ UNCHANGED last
    /\ solo' = [solo EXCEPT ![k] = NoCall]
    /\ UNCHANGED <<dbData, tasks, handled, issued, selected, okWrites, dbVer, dbSets, okDel, purged,
                   staleHit>>

\* The wrapped cache once the database has taken `row` under the key, lines
\* 235-237 and 275-277: Set and Delete call nothing of the cache there.
\* (faulty variant: the row is written through to the cache)
WriteThroughMut(data, k, row) == [data EXCEPT ![k] = row]
CacheAfterMutation(data, k, row) == data

\* Set, lines 235-237 (Upsert) and Delete, lines 275-277 (Delete): the
\* database mutation writes `row` under the key; its error ends the call.
DbMutate(p, at, next, name, row) ==
    /\ call[p].pc = at
    /\ \E fail \in MayFail :
         /\ faults' = IF fail THEN faults + 1 ELSE faults
         /\ LET k == call[p].op.key
                e == IF fail THEN ErrDb ELSE NoErr
                c == [call[p] EXCEPT
                        !.trace = Append(@, Ev(name, k, call[p].op.val, e))]
            IN IF ErrNotNil(e)
               THEN /\ call' = [call EXCEPT ![p] = Done]
                    /\ last' = Returned(c, <<NilVal, e>>, 0)
                    /\ UNCHANGED <<dbData, dbVer, dbSets, cacheData>>
               ELSE /\ call' = [call EXCEPT ![p] =
                                  [c EXCEPT !.pc = next, !.ver = dbVer[k] + 1]]
                    /\ dbData' = [dbData EXCEPT ![k] = row]
                    /\ cacheData' = CacheAfterMutation(cacheData, k, row)
                    /\ dbVer' = [dbVer EXCEPT ![k] = @ + 1]
                    /\ dbSets' = [dbSets EXCEPT ![k] =
                                    IF name = "db.Upsert" THEN @ + 1 ELSE @]
                    /\ UNCHANGED last
    /\ UNCHANGED <<tasks, handled, issued, selected, okWrites, cacheVer, okDel, purged,
                   staleHit, solo>>

\* cache.Options.Gopher(f): the functions waiting to run once the Gopher has
\* been handed t. The default Gopher starts a goroutine and returns at once
\* (lines 151-154, `go f()`); a Gopher that returns an error has not taken f.
GopherRetryMut(ts, t, fail) == ts \cup {t}
GopherInlineMut(ts, t, fail) == ts
Gopher(ts, t, fail) == IF fail THEN ts ELSE ts \cup {t}

\* Set, lines 240-255 and Delete, lines 280-295: return cache.Options.Gopher(f).
\* The Gopher either takes f (the default starts a goroutine, lines 151-154)
\* or refuses it with an error; the call returns the Gopher's error.
Submit(p, at) ==
    /\ call[p].pc = at
    /\ \E fail \in MayFail :
         /\ faults' = IF fail THEN faults + 1 ELSE faults
         /\ LET k == call[p].op.key
                e == IF fail THEN ErrGopher ELSE NoErr
                c == [call[p] EXCEPT !.trace = Append(@, Ev("gopher", k, NilVal, e))]
            IN /\ tasks' = Gopher(tasks, [key |-> k, ver |-> c.ver, ctx |-> "live"],
                                  fail)
               /\ last' = Returned(c, <<NilVal, e>>, 0)
               /\ solo' = [solo EXCEPT ![k] = IF ~fail /\ c.alone THEN c.op ELSE @]
               /\ okWrites' = [okWrites EXCEPT ![k] = IF ErrNotNil(e) THEN @ ELSE @ + 1]
    /\ call' = [call EXCEPT ![p] = Done]
    /\ UNCHANGED <<cacheData, dbData, handled, issued, selected, dbVer, dbSets,
                   cacheVer, okDel, purged, staleHit>>

SetCacheDelete(p, k, v) == FirstCacheDelete(p, "Set", k, v, "S2")
\* (faulty variant: the function is handed to the Gopher before the Upsert)
SetUpsertMut(p) == Submit(p, "S2")
SetUpsert(p) == DbMutate(p, "S2", "S3", "db.Upsert", call[p].op.val)
SetGopher(p) == Submit(p, "S3")

DeleteCacheDelete(p, k) == FirstCacheDelete(p, "Delete", k, NilVal, "D2")
DeleteDbDelete(p) == DbMutate(p, "D2", "D3", "db.Delete", Absent)
DeleteGopher(p) == Submit(p, "D3")

\* A reader of the key that read the database before write version v and has
\* not yet written what it read into the cache.
StaleReaderInFlight(k, v) ==
    \E p \in Procs : call[p].pc = "G3" /\ call[p].op.key = k /\ call[p].ver < v

\* cache.Cache.Delete(ctx, key) of the delayed deletion, lines 252 and 292
\* (faulty variant: the delayed deletion deletes nothing)
SecondDeletionMut(data, k) == data
SecondDeletion(data, k) == [data EXCEPT ![k] = Absent]

\* ctx := context.WithoutCancel(ctx), lines 245 and 285: the state of the
\* derived context, given that of the scheduling call's context. The timeout
\* added at lines 248 and 288 can make cache.Delete fail, nothing else.
\* (faulty variant: the call's context is passed on as it is)
WithoutCancelMut(ctx) == ctx
WithoutCancel(ctx) == "live"

\* The functions still waiting once t has run, lines 252-254: an error goes
\* to the ErrorHandler and t is over either way.
\* (faulty variant: a failed deletion stays scheduled)
RemainingMut(ts, t, fail) == IF fail THEN ts ELSE ts \ {t}
Remaining(ts, t, fail) == ts \ {t}

\* The context of the call that scheduled t is cancelled or times out while
\* t is waiting; the function holds that context (it is captured at lines
\* 240 and 280) and reads it only at lines 245 and 285.
CancelCtx(t) ==
    /\ t \in tasks /\ t.ctx = "live"
    /\ tasks' = (tasks \ {t}) \cup {[t EXCEPT !.ctx = "cancelled"]}
    /\ UNCHANGED <<cacheData, dbData, handled, faults, call, last, dbVer, dbSets,
                   cacheVer, okDel, purged, staleHit, solo, issued, selected,
             okWrites>>

\* The function handed to the Gopher, lines 241-255 and 281-295: after the
\* sleep, cache.Cache.Delete(ctx, key) under a context of its own; an error
\* goes to the ErrorHandler and nowhere else.
DelayedDelete(t) ==
    /\ t \in tasks
    /\ issued' = issued \cup {[key |-> t.key, ver |-> t.ver, caller |-> t.ctx,
                                ctx |-> WithoutCancel(t.ctx)]}
    /\ \E fail \in MayFail :
         /\ faults' = IF fail THEN faults + 1 ELSE faults
         /\ tasks' = Remaining(tasks, t, fail)
         /\ IF fail
            THEN /\ handled' = [handled EXCEPT ![t.key] = @ + 1]
                 /\ UNCHANGED <<cacheData, cacheVer, okDel, purged, staleHit>>
            ELSE /\ cacheData' = SecondDeletion(cacheData, t.key)
                 /\ cacheVer' = [cacheVer EXCEPT ![t.key] =
                                   IF cacheData'[t.key] = Absent THEN 0 ELSE @]
                 /\ staleHit' = [staleHit EXCEPT ![t.key] =
                                   @ \/ (cacheData[t.key] # Absent
                                         /\ cacheVer[t.key] < t.ver)]
                 /\ okDel' = [okDel EXCEPT ![t.key] = @ + 1]
                 /\ purged' = [purged EXCEPT ![t.key] =
                                 IF StaleReaderInFlight(t.key, t.ver) THEN @
                                 ELSE Max(@, t.ver)]
                 /\ UNCHANGED handled
    /\ UNCHANGED <<dbData, dbVer, dbSets, call, last, solo, selected, okWrites>>

\* After ddd.New(c, d, opts...) (lines 182-184): an empty cache over a
\* database that holds a row or none under each key; nobody has called yet.
NewDDD ==
    /\ cacheData = [k \in Keys |-> Absent]
    /\ tasks = {}
    /\ handled = [k \in Keys |-> 0]
    /\ faults = 0
    /\ call = [p \in Procs |-> Idle]
    /\ last = NoLast
    /\ dbVer = [k \in Keys |-> 0]
    /\ dbSets = [k \in Keys |-> 0]
    /\ cacheVer = [k \in Keys |-> 0]
    /\ okDel = [k \in Keys |-> 0]
    /\ purged = [k \in Keys |-> 0]
    /\ staleHit = [k \in Keys |-> FALSE]
    /\ solo = [k \in Keys |-> NoCall]
    /\ issued = {}
    /\ selected = [k \in Keys |-> {}]
    /\ okWrites = [k \in Keys |-> 0]

\* ------------------------------------------------------------------- sf
SfIdle == [pc |-> "idle", key |-> "none", c |-> 0, seen |-> "none", w |-> 0,
           fresh |-> FALSE]
SfDone == [SfIdle EXCEPT !.pc = "done"]
NoSfCall == [val |-> NilVal, err |-> "none", done |-> FALSE, dups |-> 0]
NoSfWrite == [op |-> "none", key |-> "none", val |-> NilVal, fwd |-> <<>>,
              ret |-> "none", busy |-> FALSE]
NoSfLast == [p |-> 0, key |-> "none", c |-> 0, ret |-> NoRet, cancelled |-> FALSE,
             seen |-> "none", w |-> 0, fresh |-> FALSE]

SfCanStart(p) ==
    /\ sfProc[p].pc = "idle"
    /\ \A q \in Procs : q < p => sfProc[q].pc # "idle"

\* singleflight's test under the group's mutex, `if c, ok := g.m[key]; ok`,
\* reached through cache.group.Do(key, ...), line 50
\* (faulty variant: the call in flight is never found)
InFlightMut(k) == FALSE
InFlight(k) == sfM[k] # 0

\* Get, line 50: cache.group.Do(key, fn). Under the group's mutex the caller
\* either joins the call in flight for the key (dups++, then wg.Wait) or
\* registers a call of its own and, the mutex released, invokes fn, which
\* is the wrapped cache's Get (line 52).
SfGetEnter(p, k) ==
    /\ SfCanStart(p)
    /\ IF InFlight(k)
       THEN /\ sfProc' = [sfProc EXCEPT ![p] = [pc |-> "wait", key |-> k, c |-> sfM[k],
                                                  seen |-> sfSetLast[k], w |-> sfWrites[k],
                                                  fresh |-> sfProc[sfM[k]].w = sfWrites[k]]]
            /\ sfCall' = [sfCall EXCEPT ![sfM[k]].dups = @ + 1]
            /\ UNCHANGED <<sfM, sfInvoked>>
       ELSE /\ sfProc' = [sfProc EXCEPT ![p] = [pc |-> "fetch", key |-> k, c |-> p,
                                                  seen |-> sfSetLast[k], w |-> sfWrites[k],
                                                  fresh |-> TRUE]]
            /\ sfM' = [sfM EXCEPT ![k] = p]
            /\ sfInvoked' = [sfInvoked EXCEPT ![k] = @ + 1]
            /\ UNCHANGED sfCall
    /\ sfGets' = [sfGets EXCEPT ![k] = @ + 1]
    /\ sfLate' = [sfLate EXCEPT ![k] = @ \/ (sfInvoked[k] >= 1 /\ sfM[k] = 0)]
    /\ UNCHANGED <<sfData, sfFetched, sfRets, sfWrites, sfForwarded,
                   sfLastWrite, sfLast, sfCancelled, sfSetLast,
                   faults>>

\* The goroutine whose ctx the wrapped Get of leader p's call is invoked
\* with: the closure of line 50 holds the ctx of the Get that built it, and
\* only the leader's closure is run.
FetchCtx(p) == p

\* A caller's context is cancelled while the caller is inside Get. Do takes
\* no context: nothing in the group looks at it.
SfCancel(p) ==
    /\ sfProc[p].pc \in {"fetch", "wait"}
    /\ p \notin sfCancelled
    /\ sfCancelled' = sfCancelled \cup {p}
    /\ UNCHANGED <<sfData, sfM, sfCall, sfProc, sfInvoked, sfFetched, sfGets,
                   sfLate, sfRets, sfWrites, sfForwarded,
                   sfLastWrite, sfLast, sfSetLast, faults>>

\* wg.Wait() lets a follower through once the leader's epilogue has run.
\* (faulty variant: a follower also leaves when its context is cancelled)
ReleasedMut(p) == sfCall[sfProc[p].c].done \/ p \in sfCancelled
Released(p) == sfCall[sfProc[p].c].done

\* The key the closure of leader p's call passes to the wrapped Get, line
\* 52: the key of the Get that built the closure.
\* (faulty variant: every flight fetches the first key)
FetchKeyMut(p) == "k1"
FetchKey(p) == sfProc[p].key

\* The wrapped cache's Get returns to the leader (line 52); singleflight
\* stores the pair in the call object: c.val, c.err = fn().
SfFetchReturn(p) ==
    /\ sfProc[p].pc = "fetch"
    /\ \E fail \in MayFail,
          honoured \in IF FetchCtx(p) \in sfCancelled THEN BOOLEAN ELSE {FALSE} :
         /\ faults' = IF fail THEN faults + 1 ELSE faults
         /\ LET r == IF honoured /\ ~fail THEN <<NilVal, ErrCanceled>>
                     ELSE CacheGet(sfData, FetchKey(p), fail)
            IN /\ sfCall' = [sfCall EXCEPT ![p].val = r[1], ![p].err = r[2]]
               /\ sfFetched' = [sfFetched EXCEPT ![p] = r]
    /\ sfProc' = [sfProc EXCEPT ![p].pc = "publish"]
    /\ UNCHANGED <<sfData, sfM, sfInvoked, sfGets, sfLate, sfRets, sfWrites, sfForwarded,
                   sfLastWrite,
                   sfLast, sfCancelled, sfSetLast>>

\* c.wg.Done() of singleflight's doCall epilogue, reached through
\* cache.group.Do(key, ...), line 50: the call object once its leader is
\* through. (faulty variant: the wait group is never released)
WgDoneMut(c) == c
WgDone(c) == [c EXCEPT !.done = TRUE]

\* singleflight's doCall epilogue, under the mutex: c.wg.Done() and, if the
\* key still maps to this call, delete(g.m, key).
SfPublish(p) ==
    /\ sfProc[p].pc = "publish"
    /\ sfCall' = [sfCall EXCEPT ![p] = WgDone(@)]
    /\ sfM' = [sfM EXCEPT ![sfProc[p].key] = IF @ = p THEN 0 ELSE @]
    /\ sfProc' = [sfProc EXCEPT ![p].pc = "unwind"]
    /\ UNCHANGED <<sfData, sfInvoked, sfFetched, sfGets, sfLate, sfRets, sfWrites, sfForwarded,
                   sfLastWrite,
                   sfLast, sfCancelled, sfSetLast, faults>>

\* The value and error Do hands back, c.val and c.err, are what Get returns
\* (lines 50-54): the leader after its epilogue, a follower once wg.Wait
\* lets it through.
SfGetReturn(p) ==
    /\ \/ sfProc[p].pc = "unwind"
       \/ sfProc[p].pc = "wait" /\ Released(p)
    /\ LET c == sfProc[p].c
           r == <<sfCall[c].val, sfCall[c].err>>
       IN /\ sfLast' = [p |-> p, key |-> sfProc[p].key, c |-> c, ret |-> r,
                         cancelled |-> p \in sfCancelled,
                         seen |-> sfProc[p].seen, w |-> sfProc[p].w,
                         fresh |-> sfProc[p].fresh]
          /\ sfRets' = [sfRets EXCEPT ![sfProc[p].key] = @ \cup {r}]
    /\ sfProc' = [sfProc EXCEPT ![p] = SfDone]
    /\ sfCancelled' = sfCancelled \ {p}
    /\ UNCHANGED <<sfData, sfM, sfCall, sfInvoked, sfFetched, sfGets, sfLate,
                   sfWrites, sfForwarded,
                   sfLastWrite, sfSetLast, faults>>

\* The calls a Set or Delete makes on the wrapped cache: lines 72 and 89
\* hand the call over as it came, the singleflight group is not consulted.
\* (faulty variant: a write on a key with a Get in flight is dropped)
PassThroughMut(k, c) == IF sfM[k] # 0 THEN <<>> ELSE <<c>>
PassThrough(k, c) == <<c>>

\* Set and Delete, lines 70-73 and 87-90: the wrapped cache's call and the
\* return of its error, in one step of the caller.
SfWrite(p, op, name, k, v, stored) ==
    /\ SfCanStart(p)
    /\ \E fail \in MayFail :
         LET err == IF fail THEN ErrCache ELSE NoErr
             fwd == PassThrough(k, Ev(name, k, v, err))
         IN /\ faults' = IF fail THEN faults + 1 ELSE faults
            /\ sfData' = IF fail \/ fwd = <<>> THEN sfData
                          ELSE [sfData EXCEPT ![k] = stored]
            /\ sfForwarded' = [sfForwarded EXCEPT ![k] = @ + Len(fwd)]
            /\ sfLastWrite' = [op |-> op, key |-> k, val |-> v, fwd |-> fwd,
                                ret |-> IF fwd = <<>> THEN NoErr ELSE err,
                                busy |-> sfM[k] # 0]
            /\ sfSetLast' = [sfSetLast EXCEPT ![k] =
                                IF op = "Set" /\ sfLastWrite'.ret = NoErr THEN v ELSE "none"]
    /\ sfProc' = [sfProc EXCEPT ![p] = SfDone]
    /\ sfWrites' = [sfWrites EXCEPT ![k] = @ + 1]
    /\ UNCHANGED <<sfM, sfCall, sfInvoked, sfFetched, sfGets, sfLate, sfRets,
                   sfLast, sfCancelled>>

\* Set, line 72: return cache.Cache.Set(ctx, key, val)
SfSet(p, k, v) == SfWrite(p, "Set", "cache.Set", k, v, v)

\* Delete, line 89: return cache.Cache.Delete(ctx, key)
SfDelete(p, k) == SfWrite(p, "Delete", "cache.Delete", k, NilVal, Absent)

\* &sf.Cache{Cache: underlying}: the zero singleflight.Group over a cache
\* that holds an entry or none under each key.
NewSF ==
    /\ sfM = [k \in SfKeys |-> 0]
    /\ sfCall = [p \in Procs |-> NoSfCall]
    /\ sfProc = [p \in Procs |-> SfIdle]
    /\ sfInvoked = [k \in SfKeys |-> 0]
    /\ sfFetched = [p \in Procs |-> NoRet]
    /\ sfGets = [k \in SfKeys |-> 0]
    /\ sfLate = [k \in SfKeys |-> FALSE]
    /\ sfRets = [k \in SfKeys |-> {}]
    /\ sfWrites = [k \in SfKeys |-> 0]
    /\ sfForwarded = [k \in SfKeys |-> 0]
    /\ sfLastWrite = NoSfWrite
    /\ sfLast = NoSfLast
    /\ sfCancelled = {}
    /\ sfSetLast = [k \in SfKeys |-> "none"]

\* -------------------------------------------------------------- sharded
MaxBuckets == 3

ErrHash == "hash factory failed"
ErrWrite == "hash write failed"

\* the keys of the router's callers, and the values they set
ShKeys == {"key1", "key2", "a"}
DistKeys == {"key1", "key2", "key3", "key4", "key5"}
ShVals == {"v1", "v2"}

\* []byte(key), line 194
KeyBytes(key) ==
    CASE key = "key1" -> <<107, 101, 121, 49>>
      [] key = "key2" -> <<107, 101, 121, 50>>
      [] key = "key3" -> <<107, 101, 121, 51>>
      [] key = "key4" -> <<107, 101, 121, 52>>
      [] key = "key5" -> <<107, 101, 121, 53>>
      [] key = "a" -> <<97>>

\* Unsigned integers of 32 bits and more are kept as their bytes, the most
\* significant first, as hash.Hash.Sum hands them out.
RECURSIVE Xor(_, _)
Xor(a, b) ==
    IF a = 0 THEN b
    ELSE IF b = 0 THEN a
    ELSE ((a + b) % 2) + 2 * Xor(a \div 2, b \div 2)

\* h ^= c, on the least significant byte
XorLow(h, c) == [h EXCEPT ![Len(h)] = Xor(@, c)]

\* the product of two unsigned integers of Len(a) bytes, modulo 256^Len(a):
\* byte i from the right is column i of the long multiplication plus the
\* carry of the columns to its right
Column(a, b, i) ==
    LET L == Len(a)
        RECURSIVE Terms(_)
        Terms(j) == IF j > i THEN 0 ELSE a[L - j] * b[L - (i - j)] + Terms(j + 1)
    IN Terms(0)

RECURSIVE Carry(_, _, _)
Carry(a, b, i) ==
    IF i = 0 THEN 0 ELSE (Column(a, b, i - 1) + Carry(a, b, i - 1)) \div 256

Mul(a, b) ==
    LET L == Len(a)
    IN [p \in 1..L |-> (Column(a, b, L - p) + Carry(a, b, L - p)) % 256]

\* hash/fnv: FNV-1a of 32, 64 and 128 bits
Offset32 == <<129, 28, 157, 197>>
Prime32 == <<1, 0, 1, 147>>
Offset64 == <<203, 242, 156, 228, 132, 34, 35, 37>>
Prime64 == <<0, 0, 1, 0, 0, 0, 1, 179>>
Offset128 == <<108, 98, 39, 46, 7, 187, 1, 66, 98, 184, 33, 117, 98, 149, 197, 141>>
Prime128 == <<0, 0, 0, 0, 1, 0, 0, 0, 0, 0, 0, 0, 0, 0, 1, 59>>

RECURSIVE Fnv1a(_, _, _)
Fnv1a(h, bytes, prime) ==
    IF bytes = <<>> THEN h
    ELSE Fnv1a(Mul(XorLow(h, Head(bytes)), prime), Tail(bytes), prime)

\* a checksum of two bytes: the sum of the bytes written, modulo 65536
RECURSIVE Total(_)
Total(bytes) == IF bytes = <<>> THEN 0 ELSE Head(bytes) + Total(Tail(bytes))

Sum16(bytes) == <<(Total(bytes) % 65536) \div 256, Total(bytes) % 256>>

\* The hashes a HashFactory (line 25) builds, by kind:
\*   "fnv32a"   fnv.New32a(), the default of Correct
\*   "fnv64a"   fnv.New64a()
\*   "fnv128a"  fnv.New128a()
\*   "plain32"  struct{ hash.Hash }{fnv.New32a()}: the digest of fnv32a behind
\*              the hash.Hash interface alone, without a Sum32 method
\*   "sum16"    a checksum of two bytes
\*   "nowrite"  a 32-bit hash whose Write returns an error
\*   "nohash"   the factory returns an error and no hash
HashKinds == {"fnv32a", "fnv64a", "fnv128a", "plain32", "sum16", "nowrite", "nohash"}

FactoryErr(hf) == IF hf = "nohash" THEN ErrHash ELSE NoErr
WriteErr(hf) == IF hf = "nowrite" THEN ErrWrite ELSE NoErr

\* h.Size()
Size(hf) ==
    CASE hf \in {"fnv32a", "plain32", "nowrite"} -> 4
      [] hf = "fnv64a" -> 8
      [] hf = "fnv128a" -> 16
      [] hf = "sum16" -> 2
      [] OTHER -> 0

\* the type assertions h.(hash.Hash32) and h.(hash.Hash64) succeed
IsHash32(hf) == hf \in {"fnv32a", "nowrite"}
IsHash64(hf) == hf = "fnv64a"

\* The digest of the key: h.Sum32(), h.Sum64() or h.Sum(nil) after
\* h.Write([]byte(key)), on a hash the factory has just built.
\* (faulty variant: every key has the digest zero)
SumMut(hf, key) == [i \in 1..Size(hf) |-> 0]
Sum(hf, key) ==
    CASE hf \in {"fnv32a", "plain32"} -> Fnv1a(Offset32, KeyBytes(key), Prime32)
      [] hf = "fnv64a" -> Fnv1a(Offset64, KeyBytes(key), Prime64)
      [] hf = "fnv128a" -> Fnv1a(Offset128, KeyBytes(key), Prime128)
      [] hf = "sum16" -> Sum16(KeyBytes(key))
      [] hf = "nowrite" -> Offset32
      [] OTHER -> <<>>

\* the digests, computed once
Digests == [hf \in HashKinds |-> [key \in ShKeys \cup DistKeys |-> Sum(hf, key)]]

\* sum % uint32(n), sum % uint64(n): the remainder of an unsigned integer
RECURSIVE Rem(_, _, _)
Rem(bytes, n, r) ==
    IF bytes = <<>> THEN r ELSE Rem(Tail(bytes), n, (r * 256 + Head(bytes)) % n)

UMod(bytes, n) == Rem(bytes, n, 0)

\* int(binary.BigEndian.Uint32(sum[:4])) % len(cache.Buckets), line 216-217:
\* an int of 64 bits holds every uint32; an int of 32 bits takes one with
\* the top bit set for the negative number 2^32 less, and the remainder of
\* a negative number is negative or zero.
IntMod(b4, n, bits) ==
    IF bits = 32 /\ b4[1] >= 128
    THEN 0 - ((UMod(<<1, 0, 0, 0, 0>>, n) + n - UMod(b4, n)) % n)
    ELSE UMod(b4, n)

\* what cache.bucket gives: a bucket, an error, or a run-time panic
NoRes == [tag |-> "none", idx |-> 0 - 1, err |-> "none"]
Failed(err) == [tag |-> "err", idx |-> 0 - 1, err |-> err]
Panicked == [tag |-> "panic", idx |-> 0 - 1, err |-> "none"]
\* (faulty variant: after a Get every key is given the first bucket)
PickedMut(i) == [tag |-> "ok", idx |-> IF shLast.op = "Get" THEN 0 ELSE i, err |-> NoErr]
Picked(i) == [tag |-> "ok", idx |-> i, err |-> NoErr]

\* cache.Buckets[i]: an index below zero is a run-time panic
Indexed(i) == IF i < 0 THEN Panicked ELSE Picked(i)

\* `if err != nil`, lines 189 and 194
\* (faulty variant: the error is not looked at)
HashErrNotNilMut(err) == FALSE
HashErrNotNil(err) == err # NoErr

\* cache.bucket, lines 186-219, for n buckets. With no bucket every branch
\* panics: the remainders divide by zero, line 213 indexes an empty slice.
bucket(hf, key, n, bits) ==
    IF HashErrNotNil(FactoryErr(hf)) THEN Failed(FactoryErr(hf))
    ELSE IF HashErrNotNil(WriteErr(hf)) THEN Failed(WriteErr(hf))
    ELSE IF n = 0 THEN Panicked
    ELSE CASE Size(hf) = 4 ->
                IF IsHash32(hf) THEN Picked(UMod(Digests[hf][key], n)) ELSE Panicked
           [] Size(hf) = 8 ->
                IF IsHash64(hf) THEN Picked(UMod(Digests[hf][key], n)) ELSE Panicked
           [] OTHER ->
                IF Len(Digests[hf][key]) < 4 THEN Picked(0)
                ELSE Indexed(IntMod(SubSeq(Digests[hf][key], 1, 4), n, bits))

\* options.Correct, lines 95-102
ShCorrect(opt) == IF opt = "nil" THEN "fnv32a" ELSE opt

\* `if len(buckets) == 0`, line 116
\* (faulty variant: the length is not looked at)
IsEmptyMut(n) == FALSE
IsEmpty(n) == n = 0

NoShCall == [op |-> "none", key |-> "none", val |-> NilVal, res |-> NoRes,
             fwd |-> {}, ret |-> NoRet, had |-> FALSE]

\* New, lines 115-120, with a list of n empty map caches
ShNew(n, opt) ==
    /\ shState = "new"
    /\ shAsked' = n
    /\ IF IsEmpty(n)
       THEN /\ shState' = "panicked"
            /\ UNCHANGED <<shBuckets, shHash>>
       ELSE /\ shState' = "ready"
            /\ shBuckets' = [i \in 1..n |-> [k \in ShKeys \cup DistKeys |-> Absent]]
            /\ shHash' = ShCorrect(opt)
    /\ UNCHANGED <<shBits, shLast, shRoute, shRef, faults>>

\* the buckets a call is handed to: the one cache.bucket returned
\* (faulty variant: every bucket)
TargetsMut(i, n) == 0..(n - 1)
Targets(i, n) == {i}

\* a bucket's Get, Set or Delete: [data (the bucket afterwards), ret]
BucketCall(op, data, k, v, fail) ==
    CASE op = "Get" -> [data |-> data, ret |-> CacheGet(data, k, fail)]
      [] op = "Set" -> [data |-> IF fail THEN data ELSE [data EXCEPT ![k] = v],
                        ret |-> <<NilVal, IF fail THEN ErrCache ELSE NoErr>>]
      [] op = "Delete" -> [data |-> IF fail THEN data ELSE [data EXCEPT ![k] = Absent],
                           ret |-> <<NilVal, IF fail THEN ErrCache ELSE NoErr>>]

\* Get, Set, Delete, lines 132-173: cache.bucket, then either the return of
\* its error or the bucket's own call and the return of its result.
ShCall(op, k, v) ==
    /\ shState = "ready"
    /\ LET n == Len(shBuckets)
           res == bucket(shHash, k, n, shBits)
       IN /\ shRoute' = [shRoute EXCEPT ![k] = IF @ = NoRes THEN res ELSE @]
          /\ IF res.tag # "ok"
             THEN /\ shLast' = [op |-> op, key |-> k, val |-> v, res |-> res,
                                fwd |-> {},
                                ret |-> IF res.tag = "err" THEN <<NilVal, res.err>>
                                        ELSE NoRet,
                                had |-> shRef[k] # Absent]
                  /\ UNCHANGED <<shBuckets, shRef, faults>>
             ELSE \E fail \in MayFail :
                    LET T == Targets(res.idx, n)
                        r == BucketCall(op, shBuckets[res.idx + 1], k, v, fail)
                    IN /\ faults' = IF fail THEN faults + 1 ELSE faults
                       /\ shBuckets' = [i \in 1..n |->
                                          IF (i - 1) \in T
                                          THEN BucketCall(op, shBuckets[i], k, v, fail).data
                                          ELSE shBuckets[i]]
                       /\ shLast' = [op |-> op, key |-> k, val |-> v, res |-> res,
                                     fwd |-> {<<i, op, k, v,
                                               BucketCall(op, shBuckets[i + 1], k, v, fail).ret>> :
                                              i \in T},
                                     ret |-> r.ret,
                                     had |-> shRef[k] # Absent]
                       /\ shRef' = IF fail \/ op = "Get" THEN shRef
                                   ELSE [shRef EXCEPT ![k] = IF op = "Set" THEN v
                                                             ELSE Absent]
    /\ UNCHANGED <<shState, shHash, shBits, shAsked>>

ShGet(k) == ShCall("Get", k, NilVal)
ShSet(k, v) == ShCall("Set", k, v)
ShDelete(k) == ShCall("Delete", k, NilVal)

\* before New is called; the build has fixed the width of int
NewSh ==
    /\ shState = "new"
    /\ shBuckets = <<>>
    /\ shHash = "nil"
    /\ shAsked = 0
    /\ shLast = NoShCall
    /\ shRoute = [k \in ShKeys \cup DistKeys |-> NoRes]
    /\ shRef = [k \in ShKeys \cup DistKeys |-> Absent]

\* ------------------------------------------------------ ddd: construction
\* durations are counted in milliseconds
MaxDuration == 2
DefaultDelay == 500
DefaultDeleteTimeout == 500000

Durations == (0 - MaxDuration)..MaxDuration
NoOpts == [delay |-> 0, timeout |-> 0, handler |-> "none", gopher |-> "none"]

\* `<= 0`, lines 133 and 138
\* (faulty variant: a duration of zero is kept)
NonPositiveMut(d) == d < 0
NonPositive(d) == d <= 0

\* options.Correct, lines 131-157
CoCorrect(o) ==
    [delay |-> IF NonPositive(o.delay) THEN DefaultDelay ELSE o.delay,
     timeout |-> IF NonPositive(o.timeout) THEN DefaultDeleteTimeout ELSE o.timeout,
     handler |-> IF o.handler = "nil" THEN "log" ELSE o.handler,
     gopher |-> IF o.gopher = "nil" THEN "go" ELSE o.gopher]

\* New, lines 182-184: newOptions(opts...) applies the options and corrects
\* them
CoNew ==
    /\ coOut = NoOpts
    /\ coOut' = CoCorrect(coIn)
    /\ UNCHANGED <<coIn, coRuns, coSpawned, coErrs>>

\* o.Gopher(f) on the options New kept. The default, lines 151-154, starts
\* a goroutine for f and returns nil; a configured Gopher may refuse f.
CoGopher ==
    /\ coOut # NoOpts
    /\ coRuns < MaxCalls
    /\ \E refused \in IF coOut.gopher = "go" THEN {FALSE} ELSE BOOLEAN :
         /\ coSpawned' = IF refused THEN coSpawned ELSE coSpawned + 1
         /\ coErrs' = coErrs \cup {IF refused THEN ErrGopher ELSE NoErr}
    /\ coRuns' = coRuns + 1
    /\ UNCHANGED <<coIn, coOut>>

\* no option configured, New not yet called
NoCo ==
    /\ coIn = [delay |-> 0, timeout |-> 0, handler |-> "nil", gopher |-> "nil"]
    /\ coOut = NoOpts
    /\ coRuns = 0
    /\ coSpawned = 0
    /\ coErrs = {}

\* --------------------------------------------------------------- adapters
\* The adapters over a byte or string store: bc (bigcache), fc (freecache)
\* and redis. Time is counted in ticks, TicksPerSecond of them to
\* time.Second.
MaxTime == 4
MaxTTL == 3
TicksPerSecond == 2

ErrMarshalNil == "gouache: Marshal is nil"
ErrTTL == "ttl error"
ErrMarshal == "marshal error"

AdKinds == {"bc", "fc", "redis"}
AdKeys == {"k1"}

\* the values callers pass to Set, by their dynamic type
AdValues == {[type |-> "bytes", v |-> "b1"], [type |-> "string", v |-> "s1"],
             [type |-> "struct", v |-> "o1"]}

\* the type the adapter stores as it is: val.([]byte), val.(string)
Native(kind) == IF kind = "redis" THEN "string" ELSE "bytes"

\* the TTL functions: none, one that returns an error, one that returns a
\* positive duration of d ticks; bc has no TTL field
NoTTL == [kind |-> "nil", d |-> 0]
TTLs == {NoTTL, [kind |-> "err", d |-> 0]} \cup {[kind |-> "dur", d |-> n] : n \in 1..MaxTTL}

AdConfigs ==
    {c \in [kind : AdKinds, ttl : TTLs, marshal : {"nil", "set", "failing"},
            unmarshal : {"nil", "set"}] :
        c.kind = "bc" => c.ttl = NoTTL}

NoEntry == [data |-> Absent, expireAt |-> 0]

\* What the store keeps of an entry set at `now` with the duration of d
\* ticks the TTL function returned. fc hands freecache int(ttl/time.Second)
\* seconds; freecache keeps now + seconds in whole seconds, and no expiry
\* when the seconds are not positive. redis is given the duration itself.
Entry(kind, data, d, now) ==
    CASE kind = "fc" ->
           LET seconds == d \div TicksPerSecond
           IN [data |-> data,
               expireAt |-> IF seconds > 0 THEN (now \div TicksPerSecond) + seconds ELSE 0]
      [] kind = "redis" -> [data |-> data, expireAt |-> IF d > 0 THEN now + d ELSE 0]
      [] OTHER -> [data |-> data, expireAt |-> 0]

\* the store no longer hands the entry out
Expired(kind, e, now) ==
    /\ e.expireAt # 0
    /\ e.expireAt <= (IF kind = "fc" THEN now \div TicksPerSecond ELSE now)

\* cache.Marshal(key, obj) and cache.Unmarshal(key, data) of a caller who
\* configured them: the encoding of a value, the decoding of stored data
Marshalled(v) ==
    CASE v = "b1" -> "m(b1)"
      [] v = "s1" -> "m(s1)"
      [] v = "o1" -> "m(o1)"

Unmarshalled(data) ==
    CASE data = "m(b1)" -> "b1"
      [] data = "m(s1)" -> "s1"
      [] data = "m(o1)" -> "o1"
      [] data = "b1" -> "u(b1)"
      [] data = "s1" -> "u(s1)"

\* `cache.Marshal == nil`
\* (faulty variant: the test is left out)
MarshalIsNilMut(m) == FALSE
MarshalIsNil(m) == m = "nil"

\* Set of bc (lines 83-103), fc (lines 89-122) and redis (lines 89-122):
\* [calls (the functions called, in order), ret (the error returned), store
\* (the store afterwards)]
AdSetOutcome(c, store, now, k, val, fail) ==
    LET timed == c.kind # "bc" /\ c.ttl.kind # "nil"
        pre == IF timed THEN <<"TTL">> ELSE <<>>
        Put(calls, data) ==
            [calls |-> Append(calls, "Cache.Set"),
             ret |-> IF fail THEN ErrCache ELSE NoErr,
             store |-> IF fail THEN store
                       ELSE [store EXCEPT ![k] = Entry(c.kind, data, c.ttl.d, now)]]
    IN IF timed /\ c.ttl.kind = "err"
       THEN [calls |-> pre, ret |-> ErrTTL, store |-> store]
       ELSE IF val.type = Native(c.kind) THEN Put(pre, val.v)
       ELSE IF MarshalIsNil(c.marshal)
       THEN [calls |-> pre, ret |-> ErrMarshalNil, store |-> store]
       ELSE IF c.marshal = "failing"
       THEN [calls |-> Append(pre, "Marshal"), ret |-> ErrMarshal, store |-> store]
       ELSE Put(Append(pre, "Marshal"), Marshalled(val.v))

NoAdCall == [op |-> "none", at |-> 0, key |-> "none", val |-> [type |-> "none", v |-> NilVal],
             calls |-> <<>>, ret |-> NoRet]

AdSet(k, val) ==
    /\ \E fail \in MayFail :
         LET o == AdSetOutcome(adCfg, adStore, adNow, k, val, fail)
             put == "Cache.Set" \in {o.calls[i] : i \in 1..Len(o.calls)}
         IN /\ faults' = IF fail /\ put THEN faults + 1 ELSE faults
            /\ adStore' = o.store
            /\ adLast' = [op |-> "Set", at |-> adNow, key |-> k, val |-> val, calls |-> o.calls,
                          ret |-> <<NilVal, o.ret>>]
            /\ adDue' = IF o.ret # NoErr THEN adDue
                        ELSE [adDue EXCEPT ![k] =
                                IF adCfg.ttl.kind = "dur" THEN adNow + adCfg.ttl.d
                                ELSE 0]
    /\ UNCHANGED <<adCfg, adNow>>

\* Get, lines 45-71 (bc), 50-76 (fc and redis): a missing or expired entry
\* is ErrCacheMiss, another error of the store is returned as it is, and
\* the data goes through Unmarshal where one is configured. freecache's Get
\* has no error but not-found.
AdGet(k) ==
    /\ \E fail \in IF adCfg.kind = "fc" THEN {FALSE} ELSE MayFail :
         /\ faults' = IF fail THEN faults + 1 ELSE faults
         /\ LET e == adStore[k]
                r == IF fail THEN <<NilVal, ErrCache>>
                     ELSE IF e.data = Absent \/ Expired(adCfg.kind, e, adNow)
                     THEN <<NilVal, ErrCacheMiss>>
                     ELSE IF adCfg.unmarshal = "nil" THEN <<e.data, NoErr>>
                     ELSE <<Unmarshalled(e.data), NoErr>>
            IN adLast' = [op |-> "Get", at |-> adNow, key |-> k, val |-> NoAdCall.val,
                          calls |-> <<"Cache.Get">>, ret |-> r]
    /\ UNCHANGED <<adCfg, adStore, adNow, adDue>>

\* Delete, lines 113-116 (bc), 132-136 (fc and redis)
AdDelete(k) ==
    /\ \E fail \in IF adCfg.kind = "fc" THEN {FALSE} ELSE MayFail :
         /\ faults' = IF fail THEN faults + 1 ELSE faults
         /\ adStore' = IF fail THEN adStore ELSE [adStore EXCEPT ![k] = NoEntry]
         /\ adDue' = IF fail THEN adDue ELSE [adDue EXCEPT ![k] = 0]
         /\ adLast' = [op |-> "Delete", at |-> adNow, key |-> k, val |-> NoAdCall.val,
                       calls |-> <<"Cache.Delete">>,
                       ret |-> <<NilVal, IF fail THEN ErrCache ELSE NoErr>>]
    /\ UNCHANGED <<adCfg, adNow>>

\* time passes
AdTick ==
    /\ adNow < MaxTime
    /\ adNow' = adNow + 1
    /\ UNCHANGED <<adCfg, adStore, adDue, adLast, faults>>

\* an adapter over an empty store
NewAd(c) ==
    /\ adCfg = c
    /\ adStore = [k \in AdKeys |-> NoEntry]
    /\ adNow = 0
    /\ adDue = [k \in AdKeys |-> 0]
    /\ adLast = NoAdCall

NoAd == NewAd([kind |-> "bc", ttl |-> NoTTL, marshal |-> "nil", unmarshal |-> "nil"])

\* ------------------------------------------------------------ sf over ddd
\* &sf.Cache{Cache: ddd.New(c, d)}: the closure of the leader (line 52) runs
\* the Get of the delay double delete decorator, one collaborator call per
\* step. When that Get returns, singleflight stores the pair in the call
\* object: c.val, c.err = fn().
FlightStored(p) ==
    /\ IF call'[p].pc = "done"
       THEN /\ sfCall' = [sfCall EXCEPT ![p].val = last'.ret[1],
                                        ![p].err = last'.ret[2]]
            /\ sfFetched' = [sfFetched EXCEPT ![p] = last'.ret]
            /\ sfProc' = [sfProc EXCEPT ![p].pc = "publish"]
       ELSE UNCHANGED <<sfCall, sfFetched, sfProc>>
    /\ UNCHANGED <<sfData, sfM, sfInvoked, sfGets, sfLate, sfRets, sfWrites,
                   sfForwarded, sfLastWrite, sfLast, sfCancelled, sfSetLast>>

FlightCacheGet(p) ==
    /\ sfProc[p].pc = "fetch"
    /\ GetCacheGetOf(p, FetchKey(p))
    /\ FlightStored(p)
    /\ UNCHANGED xVars

FlightSelect(p) ==
    /\ sfProc[p].pc = "fetch"
    /\ GetSelect(p)
    /\ FlightStored(p)
    /\ xSelects' = [xSelects EXCEPT ![sfProc[p].key] = @ + 1]
    /\ UNCHANGED xSets

FlightCacheSet(p) ==
    /\ sfProc[p].pc = "fetch"
    /\ GetCacheSet(p)
    /\ FlightStored(p)
    /\ xSets' = [xSets EXCEPT ![sfProc[p].key] = @ + 1]
    /\ UNCHANGED xSelects

\* no Get has been made through the singleflight decorator
NoX ==
    /\ xSelects = [k \in Keys |-> 0]
    /\ xSets = [k \in Keys |-> 0]

\* ------------------------------------------------------- specifications
\* The delay double delete decorator under concurrent callers.
InitDDD ==
    /\ NewDDD
    /\ dbData \in [Keys -> {Absent, InitialValue}]
    /\ NewSF
    /\ sfData = [k \in SfKeys |-> Absent]
    /\ NewSh
    /\ shBits = 64
    /\ NoCo
    /\ NoX
    /\ NoAd

NextDDD ==
    \/ \E p \in Procs, k \in Keys : GetCacheGet(p, k) /\ UNCHANGED <<sfVars, shVars, coVars, xVars, adVars>>
    \/ \E p \in Procs : GetSelect(p) /\ UNCHANGED <<sfVars, shVars, coVars, xVars, adVars>>
    \/ \E p \in Procs : GetCacheSet(p) /\ UNCHANGED <<sfVars, shVars, coVars, xVars, adVars>>
    \/ \E p \in Procs, k \in Keys :
         SetCacheDelete(p, k, ValueNames[p]) /\ UNCHANGED <<sfVars, shVars, coVars, xVars, adVars>>
    \/ \E p \in Procs : SetUpsert(p) /\ UNCHANGED <<sfVars, shVars, coVars, xVars, adVars>>
    \/ \E p \in Procs : SetGopher(p) /\ UNCHANGED <<sfVars, shVars, coVars, xVars, adVars>>
    \/ \E p \in Procs, k \in Keys : DeleteCacheDelete(p, k) /\ UNCHANGED <<sfVars, shVars, coVars, xVars, adVars>>
    \/ \E p \in Procs : DeleteDbDelete(p) /\ UNCHANGED <<sfVars, shVars, coVars, xVars, adVars>>
    \/ \E p \in Procs : DeleteGopher(p) /\ UNCHANGED <<sfVars, shVars, coVars, xVars, adVars>>
    \/ \E t \in tasks : DelayedDelete(t) /\ UNCHANGED <<sfVars, shVars, coVars, xVars, adVars>>

SpecDDD == InitDDD /\ [][NextDDD]_vars

\* One caller writing through the delay double delete decorator, one call
\* after the other, while the contexts of its calls are cancelled and the
\* scheduled functions run beside it. A function the Gopher has taken does
\* run: the default Gopher starts a goroutine for it, and its sleep ends.
Vers == 1..MaxCalls
NoneActive == \A q \in Procs : ~ Active(q)
RunDelayed(v) == \E t \in tasks : t.ver = v /\ DelayedDelete(t) /\ UNCHANGED <<sfVars, shVars, coVars, xVars, adVars>>

NextCtx ==
    \/ \E p \in Procs, k \in Keys :
         NoneActive /\ SetCacheDelete(p, k, ValueNames[p]) /\ UNCHANGED <<sfVars, shVars, coVars, xVars, adVars>>
    \/ \E p \in Procs : SetUpsert(p) /\ UNCHANGED <<sfVars, shVars, coVars, xVars, adVars>>
    \/ \E p \in Procs : SetGopher(p) /\ UNCHANGED <<sfVars, shVars, coVars, xVars, adVars>>
    \/ \E p \in Procs, k \in Keys :
         NoneActive /\ DeleteCacheDelete(p, k) /\ UNCHANGED <<sfVars, shVars, coVars, xVars, adVars>>
    \/ \E p \in Procs : DeleteDbDelete(p) /\ UNCHANGED <<sfVars, shVars, coVars, xVars, adVars>>
    \/ \E p \in Procs : DeleteGopher(p) /\ UNCHANGED <<sfVars, shVars, coVars, xVars, adVars>>
    \/ \E t \in tasks : CancelCtx(t) /\ UNCHANGED <<sfVars, shVars, coVars, xVars, adVars>>
    \/ \E v \in Vers : RunDelayed(v)

SpecCtx ==
    /\ InitDDD /\ [][NextCtx]_vars
    /\ \A v \in Vers : WF_vars(RunDelayed(v))

\* The singleflight decorator over a map-like cache under concurrent callers.
dddRest == <<cacheData, dbData, tasks, handled, call, last, dbVer, dbSets,
             cacheVer, okDel, purged, staleHit, solo, issued, selected,
             okWrites>>

InitSF ==
    /\ NewSF
    /\ sfData \in [SfKeys -> {Absent, InitialValue}]
    /\ NewDDD
    /\ dbData = [k \in Keys |-> Absent]
    /\ NewSh
    /\ shBits = 64
    /\ NoCo
    /\ NoX
    /\ NoAd

NextSF ==
    \/ \E p \in Procs, k \in SfKeys : SfGetEnter(p, k) /\ UNCHANGED <<dddRest, shVars, coVars, xVars, adVars>>
    \/ \E p \in Procs : SfFetchReturn(p) /\ UNCHANGED <<dddRest, shVars, coVars, xVars, adVars>>
    \/ \E p \in Procs : SfPublish(p) /\ UNCHANGED <<dddRest, shVars, coVars, xVars, adVars>>
    \/ \E p \in Procs : SfGetReturn(p) /\ UNCHANGED <<dddRest, shVars, coVars, xVars, adVars>>
    \/ \E p \in Procs, k \in SfKeys : SfSet(p, k, ValueNames[p]) /\ UNCHANGED <<dddRest, shVars, coVars, xVars, adVars>>
    \/ \E p \in Procs, k \in SfKeys : SfDelete(p, k) /\ UNCHANGED <<dddRest, shVars, coVars, xVars, adVars>>

SpecSF == InitSF /\ [][NextSF]_vars

\* Readers through the singleflight decorator, over a cache that holds an
\* entry under every key, while their contexts are cancelled.
InitSFCtx ==
    /\ NewSF
    /\ sfData = [k \in SfKeys |-> InitialValue]
    /\ NewDDD
    /\ dbData = [k \in Keys |-> Absent]
    /\ NewSh
    /\ shBits = 64
    /\ NoCo
    /\ NoX
    /\ NoAd

NextSFCtx ==
    \/ \E p \in Procs, k \in SfKeys : SfGetEnter(p, k) /\ UNCHANGED <<dddRest, shVars, coVars, xVars, adVars>>
    \/ \E p \in Procs : SfFetchReturn(p) /\ UNCHANGED <<dddRest, shVars, coVars, xVars, adVars>>
    \/ \E p \in Procs : SfPublish(p) /\ UNCHANGED <<dddRest, shVars, coVars, xVars, adVars>>
    \/ \E p \in Procs : SfGetReturn(p) /\ UNCHANGED <<dddRest, shVars, coVars, xVars, adVars>>
    \/ \E p \in Procs : SfCancel(p) /\ UNCHANGED <<dddRest, shVars, coVars, xVars, adVars>>

SpecSFCtx == InitSFCtx /\ [][NextSFCtx]_vars

\* Readers alone over such a cache, when every invocation of the wrapped
\* cache's Get returns and every goroutine that can take its next step
\* inside Get takes it: the Go scheduler leaves no runnable goroutine behind.
FetchReturns(p) == SfFetchReturn(p) /\ UNCHANGED <<dddRest, shVars, coVars, xVars, adVars>>
Publishes(p) == SfPublish(p) /\ UNCHANGED <<dddRest, shVars, coVars, xVars, adVars>>
GetReturns(p) == SfGetReturn(p) /\ UNCHANGED <<dddRest, shVars, coVars, xVars, adVars>>

NextSFGets ==
    \/ \E p \in Procs, k \in SfKeys : SfGetEnter(p, k) /\ UNCHANGED <<dddRest, shVars, coVars, xVars, adVars>>
    \/ \E p \in Procs : FetchReturns(p)
    \/ \E p \in Procs : Publishes(p)
    \/ \E p \in Procs : GetReturns(p)

SpecSFLive ==
    /\ InitSFCtx /\ [][NextSFGets]_vars
    /\ \A p \in Procs : WF_vars(FetchReturns(p)) /\ WF_vars(Publishes(p))
                          /\ WF_vars(GetReturns(p))

\* The sharding router: New, then calls on it one after the other, over
\* empty map caches as buckets, on a build of either width of int.
IntSizes == {32, 64}

InitSh ==
    /\ NewSh
    /\ shBits \in IntSizes
    /\ NewDDD
    /\ dbData = [k \in Keys |-> Absent]
    /\ NewSF
    /\ sfData = [k \in SfKeys |-> Absent]
    /\ NoCo
    /\ NoX
    /\ NoAd

NextSh ==
    \/ \E n \in 0..MaxBuckets, opt \in {"nil"} \cup HashKinds :
         ShNew(n, opt) /\ UNCHANGED <<dddRest, sfVars, coVars, xVars, adVars>>
    \/ \E k \in ShKeys : ShGet(k) /\ UNCHANGED <<dddRest, sfVars, coVars, xVars, adVars>>
    \/ \E k \in ShKeys, v \in ShVals :
         ShSet(k, v) /\ UNCHANGED <<dddRest, sfVars, coVars, xVars, adVars>>
    \/ \E k \in ShKeys : ShDelete(k) /\ UNCHANGED <<dddRest, sfVars, coVars, xVars, adVars>>

SpecSh == InitSh /\ [][NextSh]_vars

\* The router with the default hash, filled key by key
\* (TestShardedCache_BucketDistribution).
NextDist ==
    \/ \E n \in 0..MaxBuckets :
         ShNew(n, "nil") /\ UNCHANGED <<dddRest, sfVars, coVars, xVars, adVars>>
    \/ \E k \in DistKeys :
         ShSet(k, "value") /\ UNCHANGED <<dddRest, sfVars, coVars, xVars, adVars>>

SpecDist == InitSh /\ [][NextDist]_vars

\* The construction of the delay double delete decorator, and calls of the
\* Gopher it keeps.
InitCo ==
    /\ coIn \in [delay : Durations, timeout : Durations,
                 handler : {"nil", "custom"}, gopher : {"nil", "custom"}]
    /\ coOut = NoOpts
    /\ coRuns = 0
    /\ coSpawned = 0
    /\ coErrs = {}
    /\ NewDDD
    /\ dbData = [k \in Keys |-> Absent]
    /\ NewSF
    /\ sfData = [k \in SfKeys |-> Absent]
    /\ NewSh
    /\ shBits = 64
    /\ NoX
    /\ NoAd

NextCo ==
    \/ CoNew /\ UNCHANGED <<dddVars, sfVars, shVars, xVars, adVars>>
    \/ CoGopher /\ UNCHANGED <<dddVars, sfVars, shVars, xVars, adVars>>

SpecCo == InitCo /\ [][NextCo]_vars

\* Readers through the singleflight decorator wrapped around the delay double
\* delete decorator, over an empty cache.
NextSFDDD ==
    \/ \E p \in Procs, k \in Keys :
         SfGetEnter(p, k) /\ UNCHANGED <<dddRest, shVars, coVars, xVars, adVars>>
    \/ \E p \in Procs : FlightCacheGet(p) /\ UNCHANGED <<shVars, coVars, adVars>>
    \/ \E p \in Procs : FlightSelect(p) /\ UNCHANGED <<shVars, coVars, adVars>>
    \/ \E p \in Procs : FlightCacheSet(p) /\ UNCHANGED <<shVars, coVars, adVars>>
    \/ \E p \in Procs : SfPublish(p) /\ UNCHANGED <<dddRest, shVars, coVars, xVars, adVars>>
    \/ \E p \in Procs : SfGetReturn(p) /\ UNCHANGED <<dddRest, shVars, coVars, xVars, adVars>>

SpecSFDDD == InitDDD /\ [][NextSFDDD]_vars

\* An adapter of any kind and configuration, called while time passes.
InitAd ==
    /\ \E c \in AdConfigs : NewAd(c)
    /\ NewDDD
    /\ dbData = [k \in Keys |-> Absent]
    /\ NewSF
    /\ sfData = [k \in SfKeys |-> Absent]
    /\ NewSh
    /\ shBits = 64
    /\ NoCo
    /\ NoX

NextAd ==
    \/ \E k \in AdKeys, val \in AdValues :
         AdSet(k, val) /\ UNCHANGED <<dddRest, sfVars, shVars, coVars, xVars>>
    \/ \E k \in AdKeys : AdGet(k) /\ UNCHANGED <<dddRest, sfVars, shVars, coVars, xVars>>
    \/ \E k \in AdKeys : AdDelete(k) /\ UNCHANGED <<dddRest, sfVars, shVars, coVars, xVars>>
    \/ AdTick /\ UNCHANGED <<dddRest, sfVars, shVars, coVars, xVars>>

SpecAd == InitAd /\ [][NextAd]_vars

\* ------------------------------------------------------------ ddd: claims
Names(tr) == [i \in 1..Len(tr) |-> tr[i][1]]
IsPrefix(a, b) == Len(a) <= Len(b) /\ \A i \in 1..Len(a) : a[i] = b[i]
WriteOrder(kind) ==
    <<"cache.Delete", IF kind = "Set" THEN "db.Upsert" ELSE "db.Delete", "gopher">>
\* no collaborator call of the trace failed (a cache miss or a missing row
\* is no failure)
NoFailure(tr) == \A i \in 1..Len(tr) : tr[i][4] \notin {ErrCache, ErrDb, ErrGopher}
\* The calls there is a record of: those in progress and the last returned.
Records == {[op |-> call[p].op, trace |-> call[p].trace] : p \in Procs}
             \cup {[op |-> last.op, trace |-> last.trace]}
LastGetOk == last.op.kind = "Get" /\ last.ret[2] = NoErr
\* what Select reports for the key as the database stands
Row(k) == DbSelect(dbData, k, FALSE, "nilnil")

\* C1: in every Set and every Delete, in progress or returned, the
\* collaborator calls made so far are, in this order, the cache deletion, the
\* database mutation and the submission to the Gopher; each is made only
\* after the one before it succeeded, and all are on the call's key.
C1_DeleteThenMutateThenSchedule ==
    \A r \in Records :
        r.op.kind \in {"Set", "Delete"} =>
            /\ IsPrefix(Names(r.trace), WriteOrder(r.op.kind))
            /\ \A i \in 1..Len(r.trace) :
                 /\ r.trace[i][2] = r.op.key
                 /\ i < Len(r.trace) => r.trace[i][4] = NoErr
C1_Witness ==
    /\ last.op.kind = "Delete" /\ last.ret[2] = NoErr
    /\ Names(last.trace) = WriteOrder("Delete")
    /\ \E p \in Procs : call[p].op.kind = "Set" /\ Len(call[p].trace) = 2

\* C2: once a delayed deletion has run while no reader that read the
\* database before its write was still between Select and the cache
\* repopulation, the cache never again holds an entry of the key read before
\* that write.
C2_NoStaleEntryAfterSecondDelete ==
    \A k \in Keys : cacheData[k] # Absent => cacheVer[k] >= purged[k]
C2_Witness ==
    \E k \in Keys : /\ staleHit[k] /\ purged[k] >= 1
                    /\ cacheData[k] # Absent /\ cacheVer[k] = purged[k]

\* C3: a stale entry was repopulated and removed by the delayed deletion of
\* the latest Set, which ran with no stale reader left in flight; a Get that
\* began after that deletion and returns without error returns the value the
\* database holds.
C3_GetAfterDelayReturnsDbValue ==
    LET k == last.op.key
    IN (/\ LastGetOk /\ staleHit[k]
        /\ last.floorP >= 1 /\ last.floorP = dbVer[k] /\ dbData[k] # Absent)
       => last.ret[1] = dbData[k]
C3_Witness ==
    /\ LastGetOk /\ staleHit[last.op.key]
    /\ last.floorP = 1 /\ dbVer[last.op.key] = 1
    /\ last.ret[1] = dbData[last.op.key] /\ last.ret[1] # InitialValue
    /\ Len(last.trace) = 3

\* C4 as stated: with one writer, a Set, a Get that began after the writer's
\* delayed deletion ran returns nothing older than the value written.
C4_Original ==
    LET k == last.op.key
    IN (LastGetOk /\ dbVer[k] = 1 /\ dbData[k] # Absent /\ last.sawOk >= 1)
       => last.retVer >= 1
\* C4 as amended: a Get that began after the delayed deletion of write
\* version w ran, with no reader that read the database before that write
\* still between Select and the cache repopulation at that moment, returns
\* nothing older than w.
C4_GetAfterPurgeNotOlder ==
    LastGetOk => last.retVer >= last.floorP
C4_Witness ==
    /\ LastGetOk /\ last.floorP >= 1 /\ last.retVer = last.floorP
    /\ Len(last.trace) = 1

\* No write is in progress, every database mutation has had its delayed
\* deletion run, and no Get that began before the last of them is in flight.
C5_Quiescent(k) ==
    /\ ~ \E p \in Procs : Active(p) /\ call[p].op.key = k
                          /\ call[p].op.kind \in {"Set", "Delete"}
    /\ dbVer[k] >= 1 /\ okDel[k] = dbVer[k]
    /\ \A p \in Procs : (Active(p) /\ call[p].op.key = k) => call[p].sawOk = okDel[k]
\* C5 as stated: two Sets of the key have written the database and returned,
\* both delayed deletions have run and no Get that began before the last of
\* them is in flight; then the cache has no entry or the database's value.
C5_Original ==
    \A k \in Keys :
        (C5_Quiescent(k) /\ dbSets[k] = 2 /\ dbVer[k] = 2)
            => cacheData[k] = Absent \/ cacheData[k] = Row(k)[1]
\* C5 as amended: the same, after any number of writes, provided the delayed
\* deletion of the last write ran while no reader that read the database
\* before that write was still between Select and the cache repopulation.
C5_EventuallyConsistent ==
    \A k \in Keys :
        (C5_Quiescent(k) /\ purged[k] = dbVer[k])
            => cacheData[k] = Absent \/ cacheData[k] = Row(k)[1]
C5_Witness ==
    \E k \in Keys : /\ C5_Quiescent(k) /\ purged[k] = dbVer[k] /\ dbSets[k] = 2
                    /\ cacheData[k] # Absent /\ cacheData[k] = dbData[k]

\* C8: a Get that follows a successful Set(k, v) with no other call on k
\* since that Set began, and whose collaborators do not fail, returns v and
\* no error.
C8_SetThenGet ==
    (last.op.kind = "Get" /\ last.follows.kind = "Set" /\ NoFailure(last.trace))
        => last.ret = <<last.follows.val, NoErr>>
C8_Witness ==
    /\ last.op.kind = "Get" /\ last.follows.kind = "Set"
    /\ last.ret = <<last.follows.val, NoErr>>
    /\ tasks # {}

\* C9 as stated: a Get that follows a successful Delete(k) returns CacheMiss.
C9_Original ==
    (last.op.kind = "Get" /\ last.follows.kind = "Delete" /\ NoFailure(last.trace))
        => last.ret = <<NilVal, ErrCacheMiss>>
\* C9 as amended: a Get that follows a successful Delete(k), with no other
\* call on k since that Delete began and no collaborator failing, finds no
\* entry, asks the database, and returns a nil value with the error
\* Database.Select reports for the missing row: CacheMiss only if the
\* database reports it so, and no error if the database reports none.
C9_DeleteThenGet ==
    (last.op.kind = "Get" /\ last.follows.kind = "Delete" /\ NoFailure(last.trace))
        => /\ Len(last.trace) >= 2
           /\ last.trace[1] = Ev("cache.Get", last.op.key, NilVal, ErrCacheMiss)
           /\ last.trace[2][1] = "db.Select"
           /\ last.ret = <<NilVal, last.trace[2][4]>>
C9_Witness ==
    /\ last.op.kind = "Get" /\ last.follows.kind = "Delete"
    /\ last.ret = <<NilVal, ErrNoRows>>

\* C10: a Get whose cache.Get returned anything but a cache miss has made no
\* other collaborator call (no Select, no cache write) and returned exactly
\* the pair cache.Get returned; a Get still in progress got a cache miss.
C10_HitReturnedUnmodified ==
    /\ \A p \in Procs :
         (Active(p) /\ call[p].op.kind = "Get")
             => call[p].trace[1] = Ev("cache.Get", call[p].op.key, NilVal, ErrCacheMiss)
    /\ (last.op.kind = "Get" /\ last.trace[1][4] # ErrCacheMiss)
         => /\ Len(last.trace) = 1
            /\ last.trace[1][1] = "cache.Get"
            /\ last.ret = <<last.trace[1][3], last.trace[1][4]>>
C10_Witness ==
    /\ last.op.kind = "Get"
    /\ last.ret = <<NilVal, ErrCache>>
    /\ last.trace = <<Ev("cache.Get", last.op.key, NilVal, ErrCache)>>

\* ------------------------------------------------------------- sf: claims
Fetching(k) == {p \in Procs : sfProc[p].pc = "fetch" /\ sfProc[p].key = k}
AllReturned == \A p \in Procs : sfProc[p].pc = "done"

\* C6: at no instant are two invocations of the wrapped Get executing for
\* one key, and a Get, leader or follower, returns exactly the pair the
\* invocation of the call it led or joined returned.
C6_OneFetchPerKey ==
    /\ \A k \in SfKeys : Cardinality(Fetching(k)) <= 1
    /\ sfLast.p # 0 => sfLast.ret = sfFetched[sfLast.c]
C6_Witness ==
    /\ sfLast.p # 0 /\ sfLast.p # sfLast.c
    /\ sfLast.ret = sfFetched[sfLast.c] /\ sfLast.ret[2] = NoErr
    /\ sfCall[sfLast.c].dups = MaxCalls - 1

\* C7 as stated: MaxCalls goroutines each call Get on one key; when all have
\* returned the wrapped Get was invoked once and all got the same result.
C7_Original ==
    \A k \in SfKeys :
        (AllReturned /\ sfGets[k] = MaxCalls)
            => sfInvoked[k] = 1 /\ Cardinality(sfRets[k]) = 1
\* C7 as amended: N Gets of one key invoke the wrapped Get at least once and
\* at most N times; exactly once, all callers receiving the identical
\* result, provided every caller enters before the first call in flight has
\* been removed from the in-flight table.
C7_CoalescedWhileInFlight ==
    \A k \in SfKeys :
        sfGets[k] >= 1 =>
            /\ sfInvoked[k] >= 1 /\ sfInvoked[k] <= sfGets[k]
            /\ ~sfLate[k] => sfInvoked[k] = 1 /\ Cardinality(sfRets[k]) <= 1
C7_Witness ==
    \E k \in SfKeys :
        /\ AllReturned /\ sfGets[k] = MaxCalls /\ ~sfLate[k]
        /\ sfInvoked[k] = 1 /\ sfRets[k] = {<<InitialValue, NoErr>>}

\* ------------------------------------------------- ddd: error handling
\* C11: a Get that missed the cache and whose Select returned an error has
\* made no further collaborator call (no cache write) and returned nil with
\* exactly that error.
C11_SelectErrorReturned ==
    (/\ last.op.kind = "Get" /\ Len(last.trace) >= 2
     /\ last.trace[2][4] # NoErr)
        => /\ Len(last.trace) = 2
           /\ last.trace[2][1] = "db.Select"
           /\ last.ret = <<NilVal, last.trace[2][4]>>
C11_Witness ==
    /\ last.op.kind = "Get" /\ Len(last.trace) = 2
    /\ last.trace[2] = Ev("db.Select", last.op.key, Partial, ErrDb)
    /\ last.ret = <<NilVal, ErrDb>>
    /\ cacheData[last.op.key] = Absent

\* C12: a Get that missed the cache and whose Select returned v and no error
\* has called cache.Set(k, v) once, as its last collaborator call, and
\* returned v with the error of that call; a Get still in progress after
\* Select has not yet called cache.Set.
C12_RepopulateOnceAndReturnValue ==
    /\ \A p \in Procs : call[p].pc = "G3" => Len(call[p].trace) = 2
    /\ (/\ last.op.kind = "Get" /\ Len(last.trace) >= 2
        /\ last.trace[2][4] = NoErr)
           => /\ Len(last.trace) = 3
              /\ last.trace[3][1] = "cache.Set"
              /\ last.trace[3][2] = last.op.key
              /\ last.trace[3][3] = last.trace[2][3]
              /\ last.ret = <<last.trace[2][3], last.trace[3][4]>>
C12_Witness ==
    /\ last.op.kind = "Get" /\ Len(last.trace) = 3
    /\ last.trace[2][3] = InitialValue
    /\ last.ret = <<InitialValue, ErrCache>>

\* the row a write leaves in the database
Written(op) == IF op.kind = "Set" THEN op.val ELSE Absent
\* goroutine p returns from its call in this step, having been at pc `at`
Returns(p, at) == call[p].pc = at /\ call'[p].pc = "done"

\* C13: a Set goes past its first statement only if the cache deletion
\* returned no error; when it returned one, the Set returns that error in
\* the same step, having made no other collaborator call, and the step
\* leaves the database and the set of scheduled deletions as they were.
C13_SetStopsAtCacheDeleteError ==
    /\ [](\A p \in Procs :
            (Active(p) /\ call[p].op.kind = "Set") => call[p].trace[1][4] = NoErr)
    /\ [][\A p \in Procs :
            (/\ Returns(p, "idle") /\ last'.op.kind = "Set")
                => /\ Len(last'.trace) = 1
                   /\ last'.trace[1][1] = "cache.Delete"
                   /\ last'.trace[1][4] # NoErr
                   /\ last'.ret = <<NilVal, last'.trace[1][4]>>
                   /\ dbData' = dbData /\ dbVer' = dbVer /\ tasks' = tasks]_vars
C13_Witness ==
    /\ last.op.kind = "Set" /\ Len(last.trace) = 1
    /\ last.ret = <<NilVal, ErrCache>>
    /\ dbVer[last.op.key] = 0 /\ tasks = {}

\* C14: a Set reaches the submission only if Upsert returned no error; when
\* Upsert returned one, the Set returns that error in the same step with
\* nothing scheduled, the step touches neither cache nor database, and if no
\* other call on the key ran since the Set began the cache has no entry.
C14_SetStopsAtUpsertError ==
    /\ [](\A p \in Procs : call[p].pc = "S3" => call[p].trace[2][4] = NoErr)
    /\ [][\A p \in Procs :
            Returns(p, "S2")
                => /\ Len(last'.trace) = 2
                   /\ last'.trace[2][1] = "db.Upsert"
                   /\ last'.trace[2][4] # NoErr
                   /\ last'.ret = <<NilVal, last'.trace[2][4]>>
                   /\ tasks' = tasks /\ dbData' = dbData /\ cacheData' = cacheData
                   /\ call[p].alone => cacheData'[call[p].op.key] = Absent]_vars
C14_Witness ==
    /\ last.op.kind = "Set" /\ Len(last.trace) = 2
    /\ last.ret = <<NilVal, ErrDb>>
    /\ cacheData[last.op.key] = Absent /\ dbData[last.op.key] = InitialValue
    /\ tasks = {}

\* C15: when the Gopher returns an error, the Set or Delete returns that
\* error in the same step after that single submission, nothing has been
\* scheduled, and the step leaves the database as the mutation made it: if
\* no other call on the key ran meanwhile it holds what the call wrote.
C15_GopherErrorSurfaced ==
    [][\A p \in Procs :
         (/\ Returns(p, "S3") \/ Returns(p, "D3")
          /\ last'.ret[2] # NoErr)
             => /\ Len(last'.trace) = 3
                /\ last'.trace[3][1] = "gopher"
                /\ last'.ret = <<NilVal, last'.trace[3][4]>>
                /\ tasks' = tasks
                /\ dbData' = dbData /\ dbVer' = dbVer
                /\ call[p].alone
                     => dbData'[call[p].op.key] = Written(call[p].op)]_vars
C15_Witness ==
    /\ last.op.kind = "Set" /\ Len(last.trace) = 3
    /\ last.ret = <<NilVal, ErrGopher>>
    /\ dbData[last.op.key] = last.op.val /\ tasks = {}

\* C16: in a Delete every collaborator call but the last made returned no
\* error; the Delete returns the error of the last call it made, which is
\* the submission when that error is nil; a Delete that stops at the cache
\* deletion leaves database and scheduled deletions alone, one that stops at
\* the database deletion leaves the scheduled deletions alone.
C16_DeleteStopsAtFirstError ==
    /\ [](\A r \in Records :
            r.op.kind = "Delete" =>
                \A i \in 1..Len(r.trace) : i < Len(r.trace) => r.trace[i][4] = NoErr)
    /\ [](last.op.kind = "Delete" =>
            /\ last.ret = <<NilVal, last.trace[Len(last.trace)][4]>>
            /\ last.ret[2] = NoErr => Len(last.trace) = 3)
    /\ [][\A p \in Procs :
            /\ (Returns(p, "idle") /\ last'.op.kind = "Delete")
                 => /\ Len(last'.trace) = 1 /\ last'.ret[2] # NoErr
                    /\ dbData' = dbData /\ dbVer' = dbVer /\ tasks' = tasks
            /\ Returns(p, "D2")
                 => /\ Len(last'.trace) = 2 /\ last'.ret[2] # NoErr
                    /\ dbData' = dbData /\ tasks' = tasks]_vars
C16_Witness ==
    /\ last.op.kind = "Delete" /\ Len(last.trace) = 2
    /\ last.ret = <<NilVal, ErrDb>>
    /\ dbData[last.op.key] = InitialValue /\ tasks = {}

\* ------------------------------------------- ddd: the delayed deletion
Pending(v) == \E t \in tasks : t.ver = v
Issued(v) == \E i \in issued : i.ver = v

\* C17: every delayed deletion is issued with a context that is not
\* cancelled, whatever became of the context of the call that scheduled it,
\* and on the key of that call; and a deletion the Gopher has taken is
\* eventually issued, cancelled caller or not.
C17_CancelDoesNotStopSecondDelete ==
    /\ [](\A i \in issued : i.ctx = "live" /\ i.key \in Keys)
    /\ [][\A t \in tasks :
            (t \notin tasks' /\ ~ Pending(t.ver)')
                => [key |-> t.key, ver |-> t.ver, caller |-> t.ctx, ctx |-> "live"]
                       \in issued']_vars
    /\ \A v \in Vers : Pending(v) ~> Issued(v)
C17_Witness ==
    /\ \E i \in issued : i.caller = "cancelled" /\ i.ctx = "live"
    /\ \E k \in Keys : okDel[k] >= 1

\* C18: a step in which the ErrorHandler is invoked invokes it once, ends
\* one scheduled deletion for good and touches no call, no result and no
\* cache entry; every deletion issued has ended in exactly one of a
\* successful deletion and one ErrorHandler invocation and is not scheduled
\* again; and a deletion is scheduled only by a call that returns success.
C18_DelayedFailureToHandlerOnce ==
    /\ [](\A k \in Keys :
            handled[k] + okDel[k] = Cardinality({i \in issued : i.key = k}))
    /\ [](\A v \in Vers : ~ (Pending(v) /\ Issued(v)))
    /\ [][\A k \in Keys :
            handled'[k] # handled[k]
                => /\ handled'[k] = handled[k] + 1
                   /\ \E t \in tasks : t.key = k /\ tasks' = tasks \ {t}
                   /\ call' = call /\ last' = last
                   /\ cacheData' = cacheData /\ okDel' = okDel]_vars
    /\ [][\A v \in Vers :
            (Pending(v)' /\ ~ Pending(v))
                => last'.op.kind \in {"Set", "Delete"} /\ last'.ret = <<NilVal, NoErr>>]_vars
C18_Witness ==
    /\ last.op.kind = "Set" /\ last.ret = <<NilVal, NoErr>>
    /\ handled[last.op.key] = 1 /\ okDel[last.op.key] = 0
    /\ tasks = {} /\ Cardinality(issued) = 1

\* C19: the step in which a Set or Delete returns success is the submission:
\* it leaves the call's deletion waiting, issues no deletion and changes no
\* cache entry; the deletion runs in a later step.
C19_ReturnsBeforeDelayedDelete ==
    [][\A p \in Procs :
         (/\ Returns(p, "S3") \/ Returns(p, "D3")
          /\ last'.ret[2] = NoErr)
             => /\ \E t \in tasks' :
                     /\ t \notin tasks
                     /\ t.key = call[p].op.key /\ t.ver = call[p].ver
                /\ ~ Issued(call[p].ver)'
                /\ issued' = issued /\ cacheData' = cacheData
                /\ okDel' = okDel /\ handled' = handled]_vars
C19_Witness ==
    /\ last.op.kind = "Delete" /\ last.ret = <<NilVal, NoErr>>
    /\ \E t \in tasks : t.key = last.op.key /\ t.ver = dbVer[t.key]
    /\ issued = {}

\* ------------------------------------------------------ sf: contexts
\* C20: the wrapped Get returns a cancellation error only if the context of
\* the call's leader was cancelled; the cancellation of a follower's context
\* changes nothing of the call it waits for; and a follower, cancelled or
\* not, returns only once the leader's epilogue has run, with the pair the
\* leader's invocation returned.
C20_FollowerCancelIgnored ==
    /\ [][\A p \in Procs :
            (sfFetched'[p] # sfFetched[p] /\ sfFetched'[p][2] = ErrCanceled)
                => p \in sfCancelled]_vars
    /\ [][\A p \in Procs :
            (sfProc[p].pc = "wait" /\ p \in sfCancelled' /\ p \notin sfCancelled)
                => /\ sfProc' = sfProc /\ sfCall' = sfCall /\ sfM' = sfM
                   /\ sfFetched' = sfFetched /\ sfData' = sfData]_vars
    /\ [][\A p \in Procs :
            (sfProc[p].pc = "wait" /\ sfProc'[p].pc = "done")
                => /\ sfCall[sfProc[p].c].done
                   /\ sfFetched[sfProc[p].c] # NoRet
                   /\ sfLast'.ret = sfFetched[sfProc[p].c]]_vars
C20_Witness ==
    /\ sfLast.p # 0 /\ sfLast.p # sfLast.c /\ sfLast.cancelled
    /\ sfLast.ret = <<InitialValue, NoErr>>
    /\ sfLast.ret = sfFetched[sfLast.c]

\* ------------------------------------------------------- sf: claims, writes
\* C21: a Set or Delete through the singleflight decorator makes exactly one
\* call on the wrapped cache, of the same kind and with the same key and
\* value, and returns that call's error as it is, whether or not a Get of
\* the key is in flight; so the wrapped cache has received as many writes
\* of a key as callers have made.
C21_WritesPassThrough ==
    /\ \A k \in SfKeys : sfForwarded[k] = sfWrites[k]
    /\ sfLastWrite # NoSfWrite =>
         /\ Len(sfLastWrite.fwd) = 1
         /\ sfLastWrite.fwd[1][1] = (IF sfLastWrite.op = "Set" THEN "cache.Set"
                                     ELSE "cache.Delete")
         /\ sfLastWrite.fwd[1][2] = sfLastWrite.key
         /\ sfLastWrite.fwd[1][3] = sfLastWrite.val
         /\ sfLastWrite.ret = sfLastWrite.fwd[1][4]

\* a Set on a key with a Get in flight returned the wrapped cache's error,
\* after an earlier write of the same key
C21_Witness ==
    /\ sfLastWrite.op = "Set"
    /\ sfLastWrite.busy
    /\ sfLastWrite.ret = ErrCache
    /\ sfWrites[sfLastWrite.key] = 2

\* C22: every key has at most one call in flight, the one group.m records
\* for it: a second caller of the key joins it instead of registering a call
\* of its own. The record is removed when the fetch has completed, so
\* group.m is empty whenever no Get is in progress.
Leaders(k) == {p \in Procs : sfProc[p].key = k /\ sfProc[p].pc \in {"fetch", "publish"}}

C22_OneInFlightPerKey ==
    /\ \A k \in SfKeys :
         /\ Cardinality(Leaders(k)) <= 1
         /\ sfM[k] # 0 => Leaders(k) = {sfM[k]}
         /\ sfM[k] = 0 => Leaders(k) = {}
    /\ (\A p \in Procs : sfProc[p].pc \in {"idle", "done"}) =>
         \A k \in SfKeys : sfM[k] = 0

\* all Gets have returned, two of them went through one call of the key
C22_Witness ==
    /\ \A p \in Procs : sfProc[p].pc = "done"
    /\ \E k \in SfKeys : sfGets[k] >= 2 /\ sfInvoked[k] = 1 /\ sfM[k] = 0
    /\ \E p \in Procs : sfCall[p].dups >= 1

C24_NoRouterWithoutBuckets ==
    /\ shState = "panicked" => shAsked = 0 /\ shBuckets = <<>> /\ shLast = NoShCall
    /\ shState = "ready" => shAsked >= 1 /\ Len(shBuckets) = shAsked
    /\ shLast # NoShCall => shState = "ready" /\ Len(shBuckets) >= 1

C24_Witness ==
    /\ shState = "panicked"
    /\ shAsked = 0

\* C25: the bucket index of a key whose hash was built and written without
\* error is, for n buckets and the digest d: d modulo n for a digest of 4 or
\* of 8 bytes, the first 4 bytes of d modulo n for any other digest of 4
\* bytes or more, and 0 for a shorter digest.
ClaimedIndex(hf, key, n) ==
    LET d == Digests[hf][key]
    IN CASE Size(hf) \in {4, 8} -> UMod(d, n)
         [] Size(hf) \notin {4, 8} /\ Len(d) >= 4 -> UMod(SubSeq(d, 1, 4), n)
         [] OTHER -> 0

C25_BucketIndex ==
    (shLast # NoShCall /\ shLast.res.tag # "err") =>
        /\ shLast.res.tag = "ok"
        /\ shLast.res.idx = ClaimedIndex(shHash, shLast.key, Len(shBuckets))

\* where cache.bucket does return a bucket, it is the bucket of C25
C25_IndexWhenResolved ==
    shLast.res.tag = "ok" =>
        shLast.res.idx = ClaimedIndex(shHash, shLast.key, Len(shBuckets))

\* C26: when the hash factory returns an error, or the write of the key to
\* the hash does, Get, Set and Delete return that error, Get beside a nil
\* value, and no bucket is called.
C26_HashErrorShortCircuits ==
    (shLast # NoShCall /\ shHash \in {"nohash", "nowrite"}) =>
        /\ shLast.ret = <<NilVal, IF shHash = "nohash" THEN ErrHash ELSE ErrWrite>>
        /\ shLast.fwd = {}
        /\ \A i \in 1..Len(shBuckets), k \in ShKeys : shBuckets[i][k] = Absent

C26_Witness ==
    /\ shHash = "nowrite"
    /\ shLast.op = "Set"
    /\ shLast.ret = <<NilVal, ErrWrite>>
    /\ Len(shBuckets) >= 2

\* C27: a Get, Set or Delete whose key resolves a bucket makes exactly one
\* call, of its own kind and with its own key and value, on that bucket,
\* and returns what the call returned; the step leaves every other bucket
\* as it was.
C27_OneCallOnOneBucket ==
    /\ [](shLast.res.tag = "ok" =>
            shLast.fwd = {<<shLast.res.idx, shLast.op, shLast.key, shLast.val,
                            shLast.ret>>})
    /\ [][\A i \in 1..Len(shBuckets) :
            (shLast'.res.tag = "ok" /\ i # shLast'.res.idx + 1) =>
                shBuckets'[i] = shBuckets[i]]_vars

\* a Set went to a bucket other than the first while another bucket holds
\* an entry
C27_Witness ==
    /\ shLast.op = "Set"
    /\ shLast.res.tag = "ok"
    /\ shLast.res.idx >= 1
    /\ shLast.ret = <<NilVal, NoErr>>
    /\ shBuckets[shLast.res.idx + 1][shLast.key] = shLast.val
    /\ \E i \in 1..Len(shBuckets), k \in ShKeys :
         i # shLast.res.idx + 1 /\ shBuckets[i][k] # Absent

\* C28: through a router with the default hash or the 64-bit hash over map
\* caches, a Get the bucket answers returns the value of the last
\* successful Set of the key that no successful Delete followed, and
\* ErrCacheMiss with a nil value when there is none; a Delete of a key that
\* is not set returns no error unless the bucket itself fails.
C28_RouterBehavesAsOneCache ==
    (shLast # NoShCall /\ shHash \in {"fnv32a", "fnv64a"}) =>
        /\ shLast.res.tag = "ok"
        /\ (shLast.op = "Get" /\ shLast.ret[2] # ErrCache) =>
              shLast.ret = IF shRef[shLast.key] = Absent
                           THEN <<NilVal, ErrCacheMiss>>
                           ELSE <<shRef[shLast.key], NoErr>>
        /\ (shLast.op = "Delete" /\ ~ shLast.had) =>
              shLast.ret \in {<<NilVal, NoErr>>, <<NilVal, ErrCache>>}

\* with the 64-bit hash, a Get found in a bucket other than the first the
\* value set last
C28_Witness ==
    /\ shHash = "fnv64a"
    /\ shLast.op = "Get"
    /\ shLast.res.idx >= 1
    /\ shLast.ret = <<"v2", NoErr>>

\* C29: after Sets of distinct keys through the router, each key set is in
\* exactly one bucket and a key not set in none, so the buckets together
\* hold as many entries as keys were set; with the default hash and two
\* buckets, key1..key5 leave neither bucket empty.
Entries(i) == {k \in DistKeys : shBuckets[i][k] # Absent}

RECURSIVE TotalEntries(_)
TotalEntries(i) == IF i = 0 THEN 0 ELSE Cardinality(Entries(i)) + TotalEntries(i - 1)

StoredKeys == {k \in DistKeys : shRef[k] # Absent}

C29_EachKeyInOneBucket ==
    shState = "ready" =>
        /\ \A k \in DistKeys :
             Cardinality({i \in 1..Len(shBuckets) : k \in Entries(i)}) =
                 IF k \in StoredKeys THEN 1 ELSE 0
        /\ TotalEntries(Len(shBuckets)) = Cardinality(StoredKeys)
        /\ (Len(shBuckets) = 2 /\ shHash = "fnv32a" /\ StoredKeys = DistKeys) =>
             \A i \in 1..2 : Entries(i) # {}

C29_Witness ==
    /\ shState = "ready"
    /\ Len(shBuckets) = 2
    /\ shHash = "fnv32a"
    /\ StoredKeys = DistKeys
    /\ TotalEntries(2) = 5

\* ------------------------------------------------ ddd: claims, construction
\* C30: the options New keeps have a delay of 500 ms where the configured
\* one is zero or negative and a delete timeout of 500 s where the
\* configured one is zero or negative, and the configured durations where
\* these are positive; an error handler and a Gopher that were not
\* configured are the logging handler and the Gopher that starts a
\* goroutine for every function and never returns an error.
C30_Defaults ==
    coOut # NoOpts =>
        /\ coOut.delay = IF coIn.delay <= 0 THEN 500 ELSE coIn.delay
        /\ coOut.timeout = IF coIn.timeout <= 0 THEN 500 * 1000 ELSE coIn.timeout
        /\ coOut.handler = IF coIn.handler = "nil" THEN "log" ELSE coIn.handler
        /\ coOut.gopher = IF coIn.gopher = "nil" THEN "go" ELSE coIn.gopher
        /\ coIn.gopher = "nil" => coErrs \subseteq {NoErr} /\ coSpawned = coRuns

\* nothing but a delay of zero and a positive timeout was configured, and
\* the default Gopher has taken two functions
C30_Witness ==
    /\ coOut # NoOpts
    /\ coIn.delay = 0
    /\ coIn.timeout = 1
    /\ coIn.handler = "nil"
    /\ coIn.gopher = "nil"
    /\ coRuns = 2
    /\ coErrs = {NoErr}

\* ------------------------------------------------------ sf over ddd: claims
\* C31: with the singleflight decorator around the delay double delete
\* decorator, the database is queried and the cache repopulated at most once
\* per flight of a key, and the Gets of a key that all entered while its
\* first flight was in progress cause at most one Database.Select and one
\* cache Set between them.
C31_OneSelectPerFlight ==
    \A k \in Keys :
        /\ xSelects[k] <= sfInvoked[k]
        /\ xSets[k] <= xSelects[k]
        /\ ~ sfLate[k] => xSelects[k] <= 1 /\ xSets[k] <= 1

\* three Gets of a key missing from the cache shared one flight, one Select
\* and one repopulation, and all returned the database's value
C31_Witness ==
    \E k \in Keys :
        /\ \A p \in Procs : sfProc[p].pc = "done"
        /\ sfGets[k] = MaxCalls
        /\ sfInvoked[k] = 1
        /\ xSelects[k] = 1
        /\ xSets[k] = 1
        /\ sfRets[k] = {<<InitialValue, NoErr>>}

\* --------------------------------------------------------- adapters: claims
Called(name) == name \in {adLast.calls[i] : i \in 1..Len(adLast.calls)}

\* what C32 says of a Set: a value of another type than the store's, with no
\* Marshal configured, is refused with "gouache: Marshal is nil" and not
\* handed to the store; a value of the store's type is handed to the store
\* without a call of Marshal and, the store accepting it, kept as it is
C32_Set ==
    /\ (adLast.val.type # Native(adCfg.kind) /\ adCfg.marshal = "nil") =>
          /\ adLast.ret = <<NilVal, ErrMarshalNil>>
          /\ ~ Called("Cache.Set")
    /\ adLast.val.type = Native(adCfg.kind) =>
          /\ ~ Called("Marshal")
          /\ Called("Cache.Set")
          /\ adLast.ret[2] = NoErr => adStore[adLast.key].data = adLast.val.v

C33_ExpiresAfterTTL ==
    (adCfg.kind = "fc" /\ adLast.op = "Get" /\ adDue[adLast.key] # 0
        /\ adLast.at >= adDue[adLast.key]) =>
        adLast.ret = <<NilVal, ErrCacheMiss>>

\* with a duration of a second or more the entry does expire in time
C33_ExpiresFromOneSecond ==
    adCfg.ttl.d >= TicksPerSecond => C33_ExpiresAfterTTL


\* The collaborator calls a write (Set or Delete) may make, lines 228-296
WriteCalls == {"cache.Delete", "db.Upsert", "db.Delete", "gopher"}
CallsOf(tr) == {tr[i][1] : i \in 1..Len(tr)}

Submitted(k) ==
    Cardinality({t \in tasks : t.key = k}) + Cardinality({i \in issued : i.key = k})
GopherCalls(tr) == {i \in 1..Len(tr) : tr[i][1] = "gopher"}

\* C35: a Set or Delete that returns nil has handed exactly one function to
\* the Gopher, one that returns a cache or database error has handed none;
\* the functions are neither merged nor dropped: under each key, as many
\* delayed deletions are waiting or have run as writes have returned nil,
\* and each one that has run ended in one cache.Delete.
C35_OneDeletionPerWrite ==
    /\ \A k \in Keys : Submitted(k) = okWrites[k]
    /\ \A k \in Keys : Cardinality({i \in issued : i.key = k}) = okDel[k] + handled[k]
    /\ last.op.kind \in {"Set", "Delete"} =>
         /\ last.ret[2] = NoErr => Cardinality(GopherCalls(last.trace)) = 1
         /\ last.ret[2] \in {ErrCache, ErrDb} => GopherCalls(last.trace) = {}

\* two writes returned nil and their two delayed deletions have run, a
\* third write returned the database's error and scheduled nothing
C35_Witness ==
    /\ \E k \in Keys : /\ okWrites[k] = 2 /\ okDel[k] + handled[k] = 2
                        /\ Cardinality({i \in issued : i.key = k}) = 2
    /\ tasks = {}
    /\ last.op.kind \in {"Set", "Delete"} /\ last.ret[2] = ErrDb

\* C36: the delayed deletion removes the entry under its key whatever the
\* entry holds: in the state a successful delayed cache.Delete of k leads
\* to, the cache has no entry under k.
C36_SecondDeletionUnconditional ==
    [][\A k \in Keys : okDel'[k] # okDel[k] => cacheData'[k] = Absent]_vars

\* the Get that returned last repopulated the cache with the row the
\* database still holds; nothing but a delayed deletion has run since, and
\* the entry is gone
C36_Witness ==
    /\ NoneActive /\ tasks = {}
    /\ last.op.kind = "Get" /\ last.ret[2] = NoErr
    /\ "cache.Set" \in CallsOf(last.trace)
    /\ last.retVer = dbVer[last.op.key] /\ last.retVer > 0
    /\ dbData[last.op.key] = last.ret[1]
    /\ okDel[last.op.key] > last.sawOk
    /\ cacheData[last.op.key] = Absent

\* C37: Gets of different keys share nothing. The call registered under a
\* key is led by a Get of that key, a follower waits on a call of its own
\* key only, and a Get returns what the wrapped cache holds under its own
\* key (shown while nothing has been written): the flight's closure asks
\* the wrapped cache for the key of the flight.
C37_KeysIndependent ==
    /\ \A k \in SfKeys : sfM[k] # 0 =>
          /\ sfProc[sfM[k]].key = k
          /\ sfProc[sfM[k]].pc \in {"fetch", "publish"}
    /\ \A p \in Procs : (sfProc[p].pc = "wait" /\ ~ sfCall[sfProc[p].c].done) =>
          sfM[sfProc[p].key] = sfProc[p].c
    /\ (sfLast.p # 0 /\ sfLast.ret[2] # ErrCache /\ \A k \in SfKeys : sfWrites[k] = 0) =>
          sfLast.ret = CacheGet(sfData, sfLast.key, FALSE)

\* a Get of k1 is in flight, its wrapped Get not yet back, while a Get of
\* k2 that began later has led a flight of its own and returned the miss
\* of k2, not the entry of k1
C37_Witness ==
    /\ sfProc[1].pc = "fetch" /\ sfProc[1].key = "k1"
    /\ sfData["k1"] = InitialValue /\ sfData["k2"] = Absent
    /\ sfLast.p = 2 /\ sfLast.c = 2 /\ sfLast.key = "k2"
    /\ sfLast.ret = <<NilVal, ErrCacheMiss>>
    /\ sfInvoked["k1"] = 1 /\ sfInvoked["k2"] = 1

\* The Get that returned last began after a Set of its key had returned nil
\* as the last write of the key, the key has not been written since, and
\* the wrapped cache did not fail.
C38_AfterSet ==
    /\ sfLast.p # 0 /\ sfLast.seen # "none"
    /\ sfLast.w = sfWrites[sfLast.key]
    /\ sfLast.ret[2] # ErrCache

\* C38 as stated: a Get(k) that begins after Set(k, v) has returned, with no
\* other write of k, returns v, a Get of k in flight during the Set or not.
C38_Original == C38_AfterSet => sfLast.ret = <<sfLast.seen, NoErr>>

\* C38: a Get(k) that begins after Set(k, v) has returned, with no other
\* write of k, returns v when the flight it led or joined began after the
\* Set had returned, too.
C38_ReadsOwnWrite == (C38_AfterSet /\ sfLast.fresh) => sfLast.ret = <<sfLast.seen, NoErr>>

\* a follower that joined, after the Set, a flight begun after the Set, and
\* returned the value of the Set
C38_Witness ==
    /\ C38_AfterSet /\ sfLast.fresh /\ sfLast.p # sfLast.c
    /\ sfLast.ret = <<sfLast.seen, NoErr>>
    /\ sfLast.seen \in {ValueNames[p] : p \in Procs}

\* C39: when every invocation of the wrapped Get returns, every Get through
\* the decorator returns, leader or follower: a caller inside Get is
\* eventually out of it.
C39_EveryGetReturns ==
    \A p \in Procs : (sfProc[p].pc \in {"fetch", "wait"}) ~> (sfProc[p].pc = "done")

\* every caller was a Get of k1, a single flight served them all, all of
\* them are back and no call is left registered
C39_Witness ==
    /\ AllReturned
    /\ sfGets["k1"] = Cardinality(Procs) /\ sfInvoked["k1"] = 1
    /\ sfLast.p # sfLast.c
    /\ \A k \in SfKeys : sfM[k] = 0

\* The call made last reached the computation of a bucket index: the hash
\* was built and written without error and, where its size is 4 or 8, it
\* has the Sum32 or Sum64 the type assertion asks for.
C40_IndexComputed ==
    /\ shLast # NoShCall /\ shLast.res.tag # "err"
    /\ Len(shBuckets) > 0
    /\ Size(shHash) = 4 => IsHash32(shHash)
    /\ Size(shHash) = 8 => IsHash64(shHash)

\* C40: for every key, every non-empty list of N buckets and every digest,
\* on a build of either width of int, the index cache.bucket computes lies
\* in 0..N-1 and a bucket is selected.
C40_IndexInRange ==
    C40_IndexComputed =>
        /\ shLast.res.tag = "ok"
        /\ shLast.res.idx \in 0..(Len(shBuckets) - 1)

\* on a build whose int has 64 bits the index is in range
C40_IndexInRange64 == shBits = 64 => C40_IndexInRange
====
